---- MODULE Spec2Model ----
(***************************************************************************)
(* Peer lifecycle of device/peer.go: Device.NewPeer, Peer.Start,           *)
(* Peer.Stop, Peer.ZeroAndFlushAll and Peer.ExpireCurrentKeypairs, run by  *)
(* concurrent callers, together with the two sequential worker routines    *)
(* and the session events (handshake, keypair rotation, packet staging)    *)
(* that the rest of the device drives.                                     *)
(*                                                                         *)
(* A peer is identified by the remote static key it is registered under.   *)
(* Every statement of a function that other goroutines can observe is one  *)
(* step of the calling thread; pc values are named after the source line   *)
(* the thread is about to execute.                                         *)
(***************************************************************************)
EXTENDS Integers, FiniteSets, Sequences, TLC

\* ---------------------------------------------------------------- bounds
\* number of goroutines calling into the peer API concurrently
NumThreads == 2
\* the registry's peer limit (device.MaxPeers), scaled down
MaxPeers == 2
\* capacity of the staged queue (QueueStagedSize), scaled down
QueueStagedSize == 1
\* number of local indices the index table can hand out
MaxIndex == 1
\* channel identities: a make() yields an identity other than the last one
ChanIds == 2
\* send-counter value from which a keypair refuses to encrypt, scaled down
RejectAfterMessages == 2

\* capacity of the outbound queue (QueueOutboundSize), scaled down
QueueOutboundSize == 2
\* number of packets a peer's producer enqueues in one run of the model
MaxPackets == 3
\* longest buffer handed to SendBuffer
MaxBufLen == 1
\* number of distinct remote addresses
NumAddrs == 1

Threads == 1..NumThreads
Keys == 1..(MaxPeers + 1)
Indices == 1..MaxIndex
NoThread == 0
NoPeer == 0
NoIndex == 0
Addrs == 1..NumAddrs
NilEndpoint == 0
BufLens == 0..MaxBufLen
\* cap on the bytes a peer is asked to send in one run of the model
MaxTxBytes == MaxBufLen + 1

\* ------------------------------------------------------------ value types
NilChan == [st |-> "nil", gen |-> 0]
MakeChan(old) == [st |-> "open", gen |-> (old.gen % ChanIds) + 1]
CloseChan(c) == [c EXCEPT !.st = "closed"]
IsOpen(c) == c.st = "open"

\* a keypair slot: nil, or a keypair with its send counter; "deleted" says
\* that the keypair has been handed to device.DeleteKeypair
NilKeypair == [present |-> FALSE, sendNonce |-> 0, deleted |-> FALSE]
NewKeypair == [present |-> TRUE, sendNonce |-> 0, deleted |-> FALSE]

NoPanic == "none"
PanicCloseNil == "close of nil channel"
PanicCloseClosed == "close of closed channel"
PanicWaitGroup == "sync: negative WaitGroup counter"
PanicSendClosed == "send on closed channel"

\* the panic that close(c) raises, if any
ClosePanic(c) ==
    IF c.st = "nil" THEN PanicCloseNil
    ELSE IF c.st = "closed" THEN PanicCloseClosed
    ELSE NoPanic

NoFault == "none"
FaultKeypair == "keypair handed to DeleteKeypair twice"
FaultIndex == "index released twice"

ErrNone == "nil"
ErrDeviceClosed == "device closed"
ErrTooManyPeers == "too many peers"
ErrExistingPeer == "adding existing peer"
ErrNoBind == "no bind"
ErrNoEndpoint == "no known endpoint for peer"
\* whatever error the bind's Send returns
ErrSend == "send failed"

VARIABLES
    isClosed,         \* device.isClosed
    isUp,             \* device.isUp
    keyMap,           \* device.peers.keyMap: the set of registered keys
    peersLock,        \* device.peers (RWMutex): the thread holding it
    encWg,            \* device.queue.encryption.wg: count held by peers
    indexTable,       \* device.indexTable: index -> peer
    isRunning,        \* peer.isRunning
    queueLock,        \* peer.queue (RWMutex): the thread holding it
    outbound,         \* peer.queue.outbound
    inbound,          \* peer.queue.inbound
    staged,           \* peer.queue.staged
    stagedLen,        \* number of packets in peer.queue.staged
    stopping,         \* peer.stopping (WaitGroup counter)
    senders,          \* live RoutineSequentialSender goroutines
    receivers,        \* live RoutineSequentialReceiver goroutines
    timersActive,     \* peer.timers armed (timersInit / timersStop)
    lastSentExpired,  \* handshake.lastSentHandshake lies > RekeyTimeout back
    keypairs,         \* peer.keypairs: previous, current, next
    hsSecret,         \* handshake holds non-zero secret fields
    localIndex,       \* handshake.localIndex
    endpoint,         \* peer.endpoint
    pc,               \* per thread: the line it is about to execute
    arg,              \* per thread: the peer (key) of the current call
    ret,              \* per thread: the error value of the current call
    frame,            \* per thread: the function that called ZeroAndFlushAll
    zfaDirty,         \* per thread: a session event hit during the call
    panicked,         \* a goroutine panicked (close of nil/closed channel,
                      \* negative WaitGroup counter)
    bind,             \* device.net.bind is non-nil
    netReaders,       \* device.net (RWMutex): number of read-lock holders
    peerReaders,      \* peer.RWMutex: number of read-lock holders
    disableRoaming,   \* peer.disableRoaming
    txBytes,          \* peer.stats.txBytes
    rxBytes,          \* peer.stats.rxBytes
    buf,              \* per thread: len(buffer) of SendBuffer, or the
                      \* address handed to SetEndpointFromPacket
    queueReaders,     \* peer.queue (RWMutex): number of read-lock holders
    prodPc,           \* per peer: where its packet producer stands
    prodDir,          \* per peer: the queue its producer is feeding
    outQ,             \* elements buffered in peer.queue.outbound
    inHand,           \* elements a sender routine has taken and not sent
    encDone,          \* elements whose encryption has completed
    sentLog,          \* elements handed to the network, in that order
    nextId,           \* per peer: number of the next element enqueued
    fault             \* a keypair or an index was released a second time

devVars == <<isClosed, isUp, keyMap, peersLock, encWg, indexTable>>
queueVars == <<isRunning, outbound, inbound, staged, stagedLen>>
routineVars == <<stopping, senders, receivers, timersActive>>
sessionVars == <<lastSentExpired, keypairs, hsSecret, localIndex>>
threadVars == <<pc, arg, ret, frame, zfaDirty>>
netVars == <<bind, netReaders, peerReaders, disableRoaming>>
statVars == <<txBytes, rxBytes>>
extVars == <<netVars, statVars, buf>>
pipeVars == <<queueReaders, prodPc, prodDir, outQ, inHand, encDone, sentLog,
              nextId>>
vars == <<devVars, queueLock, queueVars, routineVars, sessionVars, endpoint,
          threadVars, panicked, extVars, pipeVars, fault>>

NilKeypairs ==
    [previous |-> NilKeypair, current |-> NilKeypair, next |-> NilKeypair]

\* No socket is bound, nobody holds a read lock, and the statistics of
\* every peer are zero.
InitExt ==
    /\ bind = FALSE
    /\ netReaders = 0
    /\ peerReaders = [p \in Keys |-> 0]
    /\ disableRoaming = [p \in Keys |-> FALSE]
    /\ txBytes = [p \in Keys |-> 0]
    /\ rxBytes = [p \in Keys |-> 0]
    /\ buf = [t \in Threads |-> 0]

\* Nothing has been enqueued and no producer is at work.
InitPipe ==
    /\ queueReaders = [p \in Keys |-> 0]
    /\ prodPc = [p \in Keys |-> "idle"]
    /\ prodDir = [p \in Keys |-> "out"]
    /\ outQ = [p \in Keys |-> <<>>]
    /\ inHand = [p \in Keys |-> {}]
    /\ encDone = [p \in Keys |-> {}]
    /\ sentLog = [p \in Keys |-> <<>>]
    /\ nextId = [p \in Keys |-> 1]
    /\ fault = NoFault

\* The zero value of every field: new(Peer), and a device with no peers.
InitCommon ==
    /\ isClosed = FALSE
    /\ isUp = FALSE
    /\ peersLock = NoThread
    /\ encWg = 0
    /\ indexTable = [i \in Indices |-> NoPeer]
    /\ isRunning = [p \in Keys |-> FALSE]
    /\ queueLock = [p \in Keys |-> NoThread]
    /\ outbound = [p \in Keys |-> NilChan]
    /\ inbound = [p \in Keys |-> NilChan]
    /\ staged = [p \in Keys |-> NilChan]
    /\ stagedLen = [p \in Keys |-> 0]
    /\ stopping = [p \in Keys |-> 0]
    /\ senders = [p \in Keys |-> 0]
    /\ receivers = [p \in Keys |-> 0]
    /\ timersActive = [p \in Keys |-> FALSE]
    /\ lastSentExpired = [p \in Keys |-> FALSE]
    /\ keypairs = [p \in Keys |-> NilKeypairs]
    /\ hsSecret = [p \in Keys |-> FALSE]
    /\ localIndex = [p \in Keys |-> NoIndex]
    /\ endpoint = [p \in Keys |-> 0]
    /\ pc = [t \in Threads |-> "idle"]
    /\ arg = [t \in Threads |-> NoPeer]
    /\ ret = [t \in Threads |-> ErrNone]
    /\ frame = [t \in Threads |-> "none"]
    /\ zfaDirty = [t \in Threads |-> FALSE]
    /\ panicked = NoPanic
    /\ InitExt
    /\ InitPipe

\* --------------------------------------------------------------- helpers
Goto(t, l) == pc' = [pc EXCEPT ![t] = l]
Return(t) ==
    /\ pc' = [pc EXCEPT ![t] = "idle"]
    /\ arg' = [arg EXCEPT ![t] = NoPeer]

\* ------------------------------------------------------------ Peer.Start
\* A caller invokes peer.Start() on a registered peer.
CallStart(t, p) ==
    /\ pc[t] = "idle"
    /\ p \in keyMap
    /\ pc' = [pc EXCEPT ![t] = "Start_155"]
    /\ arg' = [arg EXCEPT ![t] = p]
    /\ UNCHANGED <<devVars, queueLock, queueVars, routineVars, sessionVars,
                   endpoint, extVars, pipeVars, ret, frame, zfaDirty,
                   panicked, fault>>

\* if peer.device.isClosed.Get() { return }
StartCheckClosed(t) ==
    /\ pc[t] = "Start_155"
    /\ IF isClosed THEN Goto(t, "Start_156") ELSE Goto(t, "Start_160")
    /\ UNCHANGED <<devVars, queueLock, queueVars, routineVars, sessionVars,
                   endpoint, extVars, pipeVars, arg, ret, frame, zfaDirty,
                   panicked, fault>>

\* the return of line 156: nothing is held, nothing was touched
StartReturnClosed(t) ==
    /\ pc[t] = "Start_156"
    /\ Return(t)
    /\ UNCHANGED <<devVars, queueLock, queueVars, routineVars, sessionVars,
                   endpoint, extVars, pipeVars, ret, frame, zfaDirty,
                   panicked, fault>>

\* peer.queue.Lock()
StartLock(t) ==
    /\ pc[t] = "Start_160"
    /\ queueLock[arg[t]] = NoThread
    /\ queueReaders[arg[t]] = 0
    /\ queueLock' = [queueLock EXCEPT ![arg[t]] = t]
    /\ Goto(t, "Start_163")
    /\ UNCHANGED <<devVars, queueVars, routineVars, sessionVars, endpoint,
                   extVars, pipeVars, arg, ret, frame, zfaDirty, panicked,
                   fault>>


\* Slip: the running flag is not consulted.
StartCheckRunning_Skip(t) ==
    /\ pc[t] = "Start_163"
    /\ Goto(t, "Start_171")
    /\ UNCHANGED <<devVars, queueLock, queueVars, routineVars, sessionVars,
                   endpoint, extVars, pipeVars, arg, ret, frame, zfaDirty,
                   panicked, fault>>

\* if peer.isRunning.Get() { return }
StartCheckRunning(t) ==
    /\ pc[t] = "Start_163"
    /\ IF isRunning[arg[t]] THEN Goto(t, "Start_164") ELSE Goto(t, "Start_171")
    /\ UNCHANGED <<devVars, queueLock, queueVars, routineVars, sessionVars,
                   endpoint, extVars, pipeVars, arg, ret, frame, zfaDirty,
                   panicked, fault>>

\* the return of line 164, running the deferred peer.queue.Unlock()
StartReturnRunning(t) ==
    /\ pc[t] = "Start_164"
    /\ queueLock' = [queueLock EXCEPT ![arg[t]] = NoThread]
    /\ Return(t)
    /\ UNCHANGED <<devVars, queueVars, routineVars, sessionVars, endpoint,
                   extVars, pipeVars, ret, frame, zfaDirty, panicked, fault>>

\* peer.stopping.Wait(): blocks until the counter is zero
StartWaitStopping(t) ==
    /\ pc[t] = "Start_171"
    /\ stopping[arg[t]] = 0
    /\ Goto(t, "Start_172")
    /\ UNCHANGED <<devVars, queueLock, queueVars, routineVars, sessionVars,
                   endpoint, extVars, pipeVars, arg, ret, frame, zfaDirty,
                   panicked, fault>>

\* peer.stopping.Add(2)
StartAddStopping(t) ==
    /\ pc[t] = "Start_172"
    /\ stopping' = [stopping EXCEPT ![arg[t]] = @ + 2]
    /\ Goto(t, "Start_174")
    /\ UNCHANGED <<devVars, queueLock, queueVars, senders, receivers,
                   timersActive, sessionVars, endpoint, extVars, pipeVars,
                   arg, ret, frame, zfaDirty, panicked, fault>>

\* Slip: Start resets the statistics of the peer along with the handshake
\* time.
StartLastSent_ZeroStats(t) ==
    /\ pc[t] = "Start_174"
    /\ lastSentExpired' = [lastSentExpired EXCEPT ![arg[t]] = TRUE]
    /\ txBytes' = [txBytes EXCEPT ![arg[t]] = 0]
    /\ rxBytes' = [rxBytes EXCEPT ![arg[t]] = 0]
    /\ Goto(t, "Start_179")
    /\ UNCHANGED <<devVars, queueLock, queueVars, routineVars, keypairs,
                   hsSecret, localIndex, endpoint, netVars, buf, arg, ret,
                   frame, zfaDirty, panicked, pipeVars, fault>>

\* under handshake.mutex: lastSentHandshake = now - (RekeyTimeout + 1s)
StartLastSent(t) ==
    /\ pc[t] = "Start_174"
    /\ lastSentExpired' = [lastSentExpired EXCEPT ![arg[t]] = TRUE]
    /\ Goto(t, "Start_179")
    /\ UNCHANGED <<devVars, queueLock, queueVars, routineVars, keypairs,
                   hsSecret, localIndex, endpoint, extVars, pipeVars, arg,
                   ret, frame, zfaDirty, panicked, fault>>

\* outbound and inbound are made anew, staged only when it is still nil
StartMakeQueues(t) ==
    /\ pc[t] = "Start_179"
    /\ outbound' = [outbound EXCEPT ![arg[t]] = MakeChan(@)]
    /\ inbound' = [inbound EXCEPT ![arg[t]] = MakeChan(@)]
    /\ staged' = [staged EXCEPT ![arg[t]] =
                     IF @.st = "nil" THEN MakeChan(@) ELSE @]
    /\ outQ' = [outQ EXCEPT ![arg[t]] = <<>>]
    /\ Goto(t, "Start_184")
    /\ UNCHANGED <<devVars, queueLock, isRunning, stagedLen, routineVars,
                   sessionVars, endpoint, extVars, queueReaders, prodPc,
                   prodDir, inHand, encDone, sentLog, nextId, arg, ret, frame,
                   zfaDirty, panicked, fault>>

\* peer.device.queue.encryption.wg.Add(1)
StartEncryptionAdd(t) ==
    /\ pc[t] = "Start_184"
    /\ encWg' = encWg + 1
    /\ Goto(t, "Start_186")
    /\ UNCHANGED <<isClosed, isUp, keyMap, peersLock, indexTable, queueLock,
                   queueVars, routineVars, sessionVars, endpoint, extVars,
                   pipeVars, arg, ret, frame, zfaDirty, panicked, fault>>

\* peer.timersInit()
StartTimersInit(t) ==
    /\ pc[t] = "Start_186"
    /\ timersActive' = [timersActive EXCEPT ![arg[t]] = TRUE]
    /\ Goto(t, "Start_188")
    /\ UNCHANGED <<devVars, queueLock, queueVars, stopping, senders,
                   receivers, sessionVars, endpoint, extVars, pipeVars, arg,
                   ret, frame, zfaDirty, panicked, fault>>

\* go peer.RoutineSequentialSender()
\* Slip: two sender routines are launched for the one outbound queue.
StartGoSender_Two(t) ==
    /\ pc[t] = "Start_188"
    /\ senders' = [senders EXCEPT ![arg[t]] = @ + 2]
    /\ Goto(t, "Start_189")
    /\ UNCHANGED <<devVars, queueLock, queueVars, stopping, receivers,
                   timersActive, sessionVars, endpoint, extVars, pipeVars,
                   arg, ret, frame, zfaDirty, panicked, fault>>

StartGoSender(t) ==
    /\ pc[t] = "Start_188"
    /\ senders' = [senders EXCEPT ![arg[t]] = @ + 1]
    /\ Goto(t, "Start_189")
    /\ UNCHANGED <<devVars, queueLock, queueVars, stopping, receivers,
                   timersActive, sessionVars, endpoint, extVars, pipeVars,
                   arg, ret, frame, zfaDirty, panicked, fault>>

\* go peer.RoutineSequentialReceiver()
StartGoReceiver(t) ==
    /\ pc[t] = "Start_189"
    /\ receivers' = [receivers EXCEPT ![arg[t]] = @ + 1]
    /\ Goto(t, "Start_191")
    /\ UNCHANGED <<devVars, queueLock, queueVars, stopping, senders,
                   timersActive, sessionVars, endpoint, extVars, pipeVars,
                   arg, ret, frame, zfaDirty, panicked, fault>>


\* Slip: the flag is not raised at the end of Start.
StartSetRunning_Forgot(t) ==
    /\ pc[t] = "Start_191"
    /\ Goto(t, "Start_192")
    /\ UNCHANGED <<devVars, queueLock, queueVars, routineVars, sessionVars,
                   endpoint, extVars, pipeVars, arg, ret, frame, zfaDirty,
                   panicked, fault>>

\* peer.isRunning.Set(true)
StartSetRunning(t) ==
    /\ pc[t] = "Start_191"
    /\ isRunning' = [isRunning EXCEPT ![arg[t]] = TRUE]
    /\ Goto(t, "Start_192")
    /\ UNCHANGED <<devVars, queueLock, outbound, inbound, staged, stagedLen,
                   routineVars, sessionVars, endpoint, extVars, pipeVars, arg,
                   ret, frame, zfaDirty, panicked, fault>>

\* the end of Start, running the deferred peer.queue.Unlock()
StartReturn(t) ==
    /\ pc[t] = "Start_192"
    /\ queueLock' = [queueLock EXCEPT ![arg[t]] = NoThread]
    /\ Return(t)
    /\ UNCHANGED <<devVars, queueVars, routineVars, sessionVars, endpoint,
                   extVars, pipeVars, ret, frame, zfaDirty, panicked, fault>>

\* ------------------------------------------------- collaborators of a peer
\* device.indexTable.Delete(index): drops whatever entry the index has
IndexTableDelete(table, index) ==
    [i \in Indices |-> IF i = index THEN NoPeer ELSE table[i]]

\* handshake.Clear(): the secret fields are zeroed and the local index is
\* reset; the remote static key and the precomputed secret stay
HandshakeClear(p) ==
    /\ hsSecret' = [hsSecret EXCEPT ![p] = FALSE]
    /\ localIndex' = [localIndex EXCEPT ![p] = NoIndex]

\* device.DeleteKeypair(kp) on a keypair that is not nil
DeleteKeypair(kp) == IF kp.present THEN [kp EXCEPT !.deleted = TRUE] ELSE kp

\* one of the three keypairs about to be handed to DeleteKeypair has been
\* handed to it before
DeletedAgain(kps) ==
    \/ kps.previous.present /\ kps.previous.deleted
    \/ kps.current.present /\ kps.current.deleted
    \/ kps.next.present /\ kps.next.deleted

\* indexTable.Delete(localIndex) is about to release an index that the
\* handshake of p no longer holds
ReleasedAgain(p) ==
    localIndex[p] # NoIndex /\ indexTable[localIndex[p]] # p

\* peer.FlushStagedPackets(): the staged queue is drained, every packet
\* in it is dropped
FlushStagedPackets(p) ==
    stagedLen' = [stagedLen EXCEPT ![p] = 0]

\* a thread of control inside ZeroAndFlushAll on peer p
InZeroAndFlushAll(t, p) ==
    /\ pc[t] \in {"ZFA_200", "ZFA_212", "ZFA_217", "ZFA_218"}
    /\ arg[t] = p

\* a thread of control inside ExpireCurrentKeypairs on peer p
InExpireCurrentKeypairs(t, p) ==
    /\ pc[t] \in {"Expire_222", "Expire_229", "Expire_238"}
    /\ arg[t] = p

\* a session event on p is seen by every ZeroAndFlushAll call and every
\* ExpireCurrentKeypairs call under way on p
MarkDirty(p) ==
    zfaDirty' = [t \in Threads |->
                    \/ zfaDirty[t]
                    \/ InZeroAndFlushAll(t, p)
                    \/ InExpireCurrentKeypairs(t, p)]

\* ------------------------------------------------- Peer.ZeroAndFlushAll
\* A caller (the zero-key-material timer, the control plane) invokes it.
CallZeroAndFlushAll(t, p) ==
    /\ pc[t] = "idle"
    /\ p \in keyMap
    /\ pc' = [pc EXCEPT ![t] = "ZFA_200"]
    /\ arg' = [arg EXCEPT ![t] = p]
    /\ UNCHANGED <<devVars, queueLock, queueVars, routineVars, sessionVars,
                   endpoint, extVars, pipeVars, ret, frame, zfaDirty,
                   panicked, fault>>


\* Slip: keypairs.storeNext(nil) is left out.
ZeroKeypairs_KeepNext(t) ==
    /\ pc[t] = "ZFA_200"
    /\ keypairs' = [keypairs EXCEPT ![arg[t]].previous = NilKeypair,
                                    ![arg[t]].current = NilKeypair,
                                    ![arg[t]].next = DeleteKeypair(@)]
    /\ fault' = IF DeletedAgain(keypairs[arg[t]]) THEN FaultKeypair ELSE fault
    /\ Goto(t, "ZFA_212")
    /\ UNCHANGED <<devVars, queueLock, queueVars, routineVars,
                   lastSentExpired, hsSecret, localIndex, endpoint, extVars,
                   pipeVars, arg, ret, frame, zfaDirty, panicked>>

\* Slip: "current" is handed to DeleteKeypair and left in its slot.
ZeroKeypairs_KeepCurrent(t) ==
    /\ pc[t] = "ZFA_200"
    /\ keypairs' = [keypairs EXCEPT ![arg[t]].previous = NilKeypair,
                                    ![arg[t]].current = DeleteKeypair(@),
                                    ![arg[t]].next = NilKeypair]
    /\ fault' = IF DeletedAgain(keypairs[arg[t]]) THEN FaultKeypair ELSE fault
    /\ Goto(t, "ZFA_212")
    /\ UNCHANGED <<devVars, queueLock, queueVars, routineVars,
                   lastSentExpired, hsSecret, localIndex, endpoint, extVars,
                   pipeVars, arg, ret, frame, zfaDirty, panicked>>

\* keypairs.Lock() ... keypairs.Unlock(): the keypairs of all three slots
\* are handed to DeleteKeypair and the slots are set to nil
ZeroKeypairs(t) ==
    /\ pc[t] = "ZFA_200"
    /\ fault' = IF DeletedAgain(keypairs[arg[t]]) THEN FaultKeypair ELSE fault
    /\ keypairs' = [keypairs EXCEPT ![arg[t]] = NilKeypairs]
    /\ Goto(t, "ZFA_212")
    /\ UNCHANGED <<devVars, queueLock, queueVars, routineVars,
                   lastSentExpired, hsSecret, localIndex, endpoint, extVars,
                   pipeVars, arg, ret, frame, zfaDirty, panicked>>


\* Slip: handshake.Clear() without device.indexTable.Delete(localIndex).
ZeroHandshake_NoDelete(t) ==
    /\ pc[t] = "ZFA_212"
    /\ HandshakeClear(arg[t])
    /\ Goto(t, "ZFA_217")
    /\ UNCHANGED <<devVars, queueLock, queueVars, routineVars,
                   lastSentExpired, keypairs, endpoint, extVars, pipeVars,
                   arg, ret, frame, zfaDirty, panicked, fault>>

\* handshake.mutex.Lock(); indexTable.Delete(localIndex); handshake.Clear()
ZeroHandshake(t) ==
    /\ pc[t] = "ZFA_212"
    /\ fault' = IF ReleasedAgain(arg[t]) THEN FaultIndex ELSE fault
    /\ indexTable' = IndexTableDelete(indexTable, localIndex[arg[t]])
    /\ HandshakeClear(arg[t])
    /\ Goto(t, "ZFA_217")
    /\ UNCHANGED <<isClosed, isUp, keyMap, peersLock, encWg, queueLock,
                   queueVars, routineVars, lastSentExpired, keypairs,
                   endpoint, extVars, pipeVars, arg, ret, frame, zfaDirty,
                   panicked>>

\* line 217: peer.FlushStagedPackets()
FlushStaged(t) ==
    /\ pc[t] = "ZFA_217"
    /\ FlushStagedPackets(arg[t])
    /\ Goto(t, "ZFA_218")
    /\ UNCHANGED <<devVars, queueLock, isRunning, outbound, inbound, staged,
                   routineVars, sessionVars, endpoint, extVars, pipeVars, arg,
                   ret, frame, zfaDirty, panicked, fault>>

\* the end of ZeroAndFlushAll: back into Stop, after its line 257, or back
\* to the caller
ZeroAndFlushAllReturn(t) ==
    /\ pc[t] = "ZFA_218"
    /\ IF frame[t] = "Stop"
         THEN Goto(t, "Stop_258") /\ arg' = arg
         ELSE Return(t)
    /\ frame' = [frame EXCEPT ![t] = "none"]
    /\ zfaDirty' = [zfaDirty EXCEPT ![t] = FALSE]
    /\ UNCHANGED <<devVars, queueLock, queueVars, routineVars, sessionVars,
                   endpoint, extVars, pipeVars, ret, panicked, fault>>

\* --------------------------------------------- Peer.ExpireCurrentKeypairs
CallExpireCurrentKeypairs(t, p) ==
    /\ pc[t] = "idle"
    /\ p \in keyMap
    /\ pc' = [pc EXCEPT ![t] = "Expire_222"]
    /\ arg' = [arg EXCEPT ![t] = p]
    /\ UNCHANGED <<devVars, queueLock, queueVars, routineVars, sessionVars,
                   endpoint, extVars, pipeVars, ret, frame, zfaDirty,
                   panicked, fault>>

\* lines 222-226, under handshake.mutex
ExpireHandshake(t) ==
    /\ pc[t] = "Expire_222"
    /\ fault' = IF ReleasedAgain(arg[t]) THEN FaultIndex ELSE fault
    /\ indexTable' = IndexTableDelete(indexTable, localIndex[arg[t]])
    /\ HandshakeClear(arg[t])
    /\ lastSentExpired' = [lastSentExpired EXCEPT ![arg[t]] = TRUE]
    /\ Goto(t, "Expire_229")
    /\ UNCHANGED <<isClosed, isUp, keyMap, peersLock, encWg, queueLock,
                   queueVars, routineVars, keypairs, endpoint, extVars,
                   pipeVars, arg, ret, frame, zfaDirty, panicked>>

ExpireNonce(kp) ==
    IF kp.present THEN [kp EXCEPT !.sendNonce = RejectAfterMessages] ELSE kp

\* Slip: only the current keypair is expired, "next" keeps its counter.
ExpireKeypairs_OnlyCurrent(t) ==
    /\ pc[t] = "Expire_229"
    /\ keypairs' = [keypairs EXCEPT ![arg[t]].current = ExpireNonce(@)]
    /\ Goto(t, "Expire_238")
    /\ UNCHANGED <<devVars, queueLock, queueVars, routineVars,
                   lastSentExpired, hsSecret, localIndex, endpoint, extVars,
                   pipeVars, arg, ret, frame, zfaDirty, panicked, fault>>

\* lines 229-237, under keypairs.Lock()
ExpireKeypairs(t) ==
    /\ pc[t] = "Expire_229"
    /\ keypairs' = [keypairs EXCEPT
                       ![arg[t]].current = ExpireNonce(@),
                       ![arg[t]].next = ExpireNonce(@)]
    /\ Goto(t, "Expire_238")
    /\ UNCHANGED <<devVars, queueLock, queueVars, routineVars,
                   lastSentExpired, hsSecret, localIndex, endpoint, extVars,
                   pipeVars, arg, ret, frame, zfaDirty, panicked, fault>>

ExpireReturn(t) ==
    /\ pc[t] = "Expire_238"
    /\ Return(t)
    /\ zfaDirty' = [zfaDirty EXCEPT ![t] = FALSE]
    /\ UNCHANGED <<devVars, queueLock, queueVars, routineVars, sessionVars,
                   endpoint, extVars, pipeVars, ret, frame, panicked, fault>>

\* ------------------------------------------------------------- Peer.Stop
CallStop(t, p) ==
    /\ pc[t] = "idle"
    /\ p \in keyMap
    /\ pc' = [pc EXCEPT ![t] = "Stop_241"]
    /\ arg' = [arg EXCEPT ![t] = p]
    /\ UNCHANGED <<devVars, queueLock, queueVars, routineVars, sessionVars,
                   endpoint, extVars, pipeVars, ret, frame, zfaDirty,
                   panicked, fault>>


\* Slip: Stop does not wait for the queue lock.
StopLock_IgnoreReaders(t) ==
    /\ pc[t] = "Stop_241"
    /\ queueLock[arg[t]] = NoThread
    /\ queueLock' = [queueLock EXCEPT ![arg[t]] = t]
    /\ Goto(t, "Stop_244")
    /\ UNCHANGED <<devVars, queueVars, routineVars, sessionVars, endpoint,
                   extVars, pipeVars, arg, ret, frame, zfaDirty, panicked,
                   fault>>

StopLock_NoWait(t) ==
    /\ pc[t] = "Stop_241"
    /\ queueLock' = [queueLock EXCEPT ![arg[t]] = t]
    /\ Goto(t, "Stop_244")
    /\ UNCHANGED <<devVars, queueVars, routineVars, sessionVars, endpoint,
                   extVars, pipeVars, arg, ret, frame, zfaDirty, panicked,
                   fault>>

\* peer.queue.Lock()
StopLock(t) ==
    /\ pc[t] = "Stop_241"
    /\ queueLock[arg[t]] = NoThread
    /\ queueReaders[arg[t]] = 0
    /\ queueLock' = [queueLock EXCEPT ![arg[t]] = t]
    /\ Goto(t, "Stop_244")
    /\ UNCHANGED <<devVars, queueVars, routineVars, sessionVars, endpoint,
                   extVars, pipeVars, arg, ret, frame, zfaDirty, panicked,
                   fault>>


\* Slip: the flag is read with Get() and left set.
StopSwapRunning_Get(t) ==
    /\ pc[t] = "Stop_244"
    /\ IF isRunning[arg[t]] THEN Goto(t, "Stop_250") ELSE Goto(t, "Stop_245")
    /\ UNCHANGED <<devVars, queueLock, queueVars, routineVars, sessionVars,
                   endpoint, extVars, pipeVars, arg, ret, frame, zfaDirty,
                   panicked, fault>>

\* Slip: the result of Swap is ignored and the teardown always runs.
StopSwapRunning_IgnoreResult(t) ==
    /\ pc[t] = "Stop_244"
    /\ Goto(t, "Stop_250")
    /\ isRunning' = [isRunning EXCEPT ![arg[t]] = FALSE]
    /\ UNCHANGED <<devVars, queueLock, outbound, inbound, staged, stagedLen,
                   routineVars, sessionVars, endpoint, extVars, pipeVars, arg,
                   ret, frame, zfaDirty, panicked, fault>>

\* if !peer.isRunning.Swap(false) { return }
StopSwapRunning(t) ==
    /\ pc[t] = "Stop_244"
    /\ IF isRunning[arg[t]] THEN Goto(t, "Stop_250") ELSE Goto(t, "Stop_245")
    /\ isRunning' = [isRunning EXCEPT ![arg[t]] = FALSE]
    /\ UNCHANGED <<devVars, queueLock, outbound, inbound, staged, stagedLen,
                   routineVars, sessionVars, endpoint, extVars, pipeVars, arg,
                   ret, frame, zfaDirty, panicked, fault>>

\* the return of line 245, running the deferred peer.queue.Unlock()
StopReturnNotRunning(t) ==
    /\ pc[t] = "Stop_245"
    /\ queueLock' = [queueLock EXCEPT ![arg[t]] = NoThread]
    /\ Return(t)
    /\ UNCHANGED <<devVars, queueVars, routineVars, sessionVars, endpoint,
                   extVars, pipeVars, ret, frame, zfaDirty, panicked, fault>>

\* peer.timersStop()
StopTimers(t) ==
    /\ pc[t] = "Stop_250"
    /\ timersActive' = [timersActive EXCEPT ![arg[t]] = FALSE]
    /\ Goto(t, "Stop_252")
    /\ UNCHANGED <<devVars, queueLock, queueVars, stopping, senders,
                   receivers, sessionVars, endpoint, extVars, pipeVars, arg,
                   ret, frame, zfaDirty, panicked, fault>>

\* close(peer.queue.inbound): closing a nil or a closed channel panics
StopCloseInbound(t) ==
    /\ pc[t] = "Stop_252"
    /\ IF IsOpen(inbound[arg[t]])
         THEN /\ inbound' = [inbound EXCEPT ![arg[t]] = CloseChan(@)]
              /\ UNCHANGED panicked
         ELSE /\ panicked' = ClosePanic(inbound[arg[t]])
              /\ UNCHANGED inbound
    /\ Goto(t, "Stop_253")
    /\ UNCHANGED <<devVars, queueLock, isRunning, outbound, staged, stagedLen,
                   routineVars, sessionVars, endpoint, extVars, pipeVars, arg,
                   ret, frame, zfaDirty, fault>>

\* Slip: Stop leaves the outbound queue open.
StopCloseOutbound_Skip(t) ==
    /\ pc[t] = "Stop_253"
    /\ Goto(t, "Stop_254")
    /\ UNCHANGED <<devVars, queueLock, queueVars, routineVars, sessionVars,
                   endpoint, extVars, pipeVars, arg, ret, frame, zfaDirty,
                   panicked, fault>>

\* close(peer.queue.outbound)
StopCloseOutbound(t) ==
    /\ pc[t] = "Stop_253"
    /\ IF IsOpen(outbound[arg[t]])
         THEN /\ outbound' = [outbound EXCEPT ![arg[t]] = CloseChan(@)]
              /\ UNCHANGED panicked
         ELSE /\ panicked' = ClosePanic(outbound[arg[t]])
              /\ UNCHANGED outbound
    /\ Goto(t, "Stop_254")
    /\ UNCHANGED <<devVars, queueLock, isRunning, inbound, staged, stagedLen,
                   routineVars, sessionVars, endpoint, extVars, pipeVars, arg,
                   ret, frame, zfaDirty, fault>>

\* Slip: Stop goes on without waiting for the routines.
StopWaitStopping_NoWait(t) ==
    /\ pc[t] = "Stop_254"
    /\ Goto(t, "Stop_255")
    /\ UNCHANGED <<devVars, queueLock, queueVars, routineVars, sessionVars,
                   endpoint, extVars, pipeVars, arg, ret, frame, zfaDirty,
                   panicked, fault>>

\* peer.stopping.Wait(): blocks until both routines have called Done
StopWaitStopping(t) ==
    /\ pc[t] = "Stop_254"
    /\ stopping[arg[t]] = 0
    /\ Goto(t, "Stop_255")
    /\ UNCHANGED <<devVars, queueLock, queueVars, routineVars, sessionVars,
                   endpoint, extVars, pipeVars, arg, ret, frame, zfaDirty,
                   panicked, fault>>

\* peer.device.queue.encryption.wg.Done(): a negative counter panics
\* Slip: Stop does not give the peer's count back.
StopEncryptionDone_Forgot(t) ==
    /\ pc[t] = "Stop_255"
    /\ Goto(t, "Stop_257")
    /\ UNCHANGED <<devVars, queueLock, queueVars, routineVars, sessionVars,
                   endpoint, extVars, pipeVars, arg, ret, frame, zfaDirty,
                   panicked, fault>>

StopEncryptionDone(t) ==
    /\ pc[t] = "Stop_255"
    /\ IF encWg > 0
         THEN encWg' = encWg - 1 /\ UNCHANGED panicked
         ELSE panicked' = PanicWaitGroup /\ UNCHANGED encWg
    /\ Goto(t, "Stop_257")
    /\ UNCHANGED <<isClosed, isUp, keyMap, peersLock, indexTable, queueLock,
                   queueVars, routineVars, sessionVars, endpoint, extVars,
                   pipeVars, arg, ret, frame, zfaDirty, fault>>

\* peer.ZeroAndFlushAll(): the call enters the function
StopZeroAndFlushAll(t) ==
    /\ pc[t] = "Stop_257"
    /\ Goto(t, "ZFA_200")
    /\ frame' = [frame EXCEPT ![t] = "Stop"]
    /\ UNCHANGED <<devVars, queueLock, queueVars, routineVars, sessionVars,
                   endpoint, extVars, pipeVars, arg, ret, zfaDirty, panicked,
                   fault>>

\* the end of Stop, running the deferred peer.queue.Unlock()
StopReturn(t) ==
    /\ pc[t] = "Stop_258"
    /\ queueLock' = [queueLock EXCEPT ![arg[t]] = NoThread]
    /\ Return(t)
    /\ UNCHANGED <<devVars, queueVars, routineVars, sessionVars, endpoint,
                   extVars, pipeVars, ret, frame, zfaDirty, panicked, fault>>

\* ------------------------------------------------- the sequential routines
\* RoutineSequentialSender ranges over the outbound queue and leaves, with
\* peer.stopping.Done(), once the queue is closed and drained.
SenderExit(p) ==
    /\ senders[p] > Cardinality(inHand[p])
    /\ outbound[p].st = "closed"
    /\ outQ[p] = <<>>
    /\ senders' = [senders EXCEPT ![p] = @ - 1]
    /\ IF stopping[p] > 0
         THEN stopping' = [stopping EXCEPT ![p] = @ - 1] /\ UNCHANGED panicked
         ELSE panicked' = PanicWaitGroup /\ UNCHANGED stopping
    /\ UNCHANGED <<devVars, queueLock, queueVars, receivers, timersActive,
                   sessionVars, endpoint, extVars, pipeVars, threadVars,
                   fault>>

\* RoutineSequentialReceiver: the same over the inbound queue.
ReceiverExit(p) ==
    /\ receivers[p] > 0
    /\ inbound[p].st = "closed"
    /\ receivers' = [receivers EXCEPT ![p] = @ - 1]
    /\ IF stopping[p] > 0
         THEN stopping' = [stopping EXCEPT ![p] = @ - 1] /\ UNCHANGED panicked
         ELSE panicked' = PanicWaitGroup /\ UNCHANGED stopping
    /\ UNCHANGED <<devVars, queueLock, queueVars, senders, timersActive,
                   sessionVars, endpoint, extVars, pipeVars, threadVars,
                   fault>>

\* ------------------------------------------------- the packet pipeline
\* The encryption stage (outbound) and the decryption stage (inbound) of
\* the device feed a peer's queues. A producer holds the read side of
\* peer.queue's RWMutex, whose write side Start and Stop hold, from before
\* it reads peer.isRunning until after it has enqueued.
ProducerRLock(p, d) ==
    /\ p \in keyMap
    /\ prodPc[p] = "idle"
    /\ queueLock[p] = NoThread
    /\ d = "out" => nextId[p] <= MaxPackets
    /\ queueReaders' = [queueReaders EXCEPT ![p] = @ + 1]
    /\ prodPc' = [prodPc EXCEPT ![p] = "check"]
    /\ prodDir' = [prodDir EXCEPT ![p] = d]
    /\ UNCHANGED <<devVars, queueLock, queueVars, routineVars, sessionVars,
                   endpoint, extVars, outQ, inHand, encDone, sentLog, nextId,
                   threadVars, panicked, fault>>

\* if peer.isRunning.Get() { enqueue } else { drop the element }
ProducerCheck(p) ==
    /\ prodPc[p] = "check"
    /\ prodPc' = [prodPc EXCEPT ![p] = IF isRunning[p] THEN "send" ELSE "drop"]
    /\ UNCHANGED <<devVars, queueLock, queueVars, routineVars, sessionVars,
                   endpoint, extVars, queueReaders, prodDir, outQ, inHand,
                   encDone, sentLog, nextId, threadVars, panicked, fault>>

\* the queue the producer of p is feeding
ProducerChan(p) == IF prodDir[p] = "out" THEN outbound[p] ELSE inbound[p]

\* peer.queue.outbound <- elem, or peer.queue.inbound <- elem: a send on a
\* closed channel panics, a send on a nil or full channel blocks
ProducerSend(p) ==
    /\ prodPc[p] = "send"
    /\ ProducerChan(p).st # "nil"
    /\ IF ProducerChan(p).st = "closed"
         THEN /\ panicked' = PanicSendClosed
              /\ UNCHANGED <<outQ, nextId>>
         ELSE /\ prodDir[p] = "out" => Len(outQ[p]) < QueueOutboundSize
              /\ outQ' = [outQ EXCEPT ![p] =
                             IF prodDir[p] = "out"
                               THEN Append(@, nextId[p]) ELSE @]
              /\ nextId' = [nextId EXCEPT ![p] =
                               IF prodDir[p] = "out" THEN @ + 1 ELSE @]
              /\ UNCHANGED panicked
    /\ prodPc' = [prodPc EXCEPT ![p] = "unlock"]
    /\ UNCHANGED <<devVars, queueLock, queueVars, routineVars, sessionVars,
                   endpoint, extVars, queueReaders, prodDir, inHand, encDone,
                   sentLog, threadVars, fault>>

\* peer.queue.RUnlock()
ProducerRUnlock(p) ==
    /\ prodPc[p] \in {"unlock", "drop"}
    /\ queueReaders' = [queueReaders EXCEPT ![p] = @ - 1]
    /\ prodPc' = [prodPc EXCEPT ![p] = "idle"]
    /\ prodDir' = [prodDir EXCEPT ![p] = "out"]
    /\ UNCHANGED <<devVars, queueLock, queueVars, routineVars, sessionVars,
                   endpoint, extVars, outQ, inHand, encDone, sentLog, nextId,
                   threadVars, panicked, fault>>

\* the elements of p that are enqueued and not yet sent
InFlight(p) == {outQ[p][i] : i \in 1..Len(outQ[p])} \cup inHand[p]

\* An encryption worker finishes element id; the workers run in parallel,
\* so elements finish in any order.
EncryptDone(p, id) ==
    /\ id \in InFlight(p) \ encDone[p]
    /\ encDone' = [encDone EXCEPT ![p] = @ \cup {id}]
    /\ UNCHANGED <<devVars, queueLock, queueVars, routineVars, sessionVars,
                   endpoint, extVars, queueReaders, prodPc, prodDir, outQ,
                   inHand, sentLog, nextId, threadVars, panicked, fault>>

\* RoutineSequentialSender receives the next element of the outbound queue.
SenderDequeue(p) ==
    /\ senders[p] > Cardinality(inHand[p])
    /\ outQ[p] # <<>>
    /\ inHand' = [inHand EXCEPT ![p] = @ \cup {Head(outQ[p])}]
    /\ outQ' = [outQ EXCEPT ![p] = Tail(@)]
    /\ UNCHANGED <<devVars, queueLock, queueVars, routineVars, sessionVars,
                   endpoint, extVars, queueReaders, prodPc, prodDir, encDone,
                   sentLog, nextId, threadVars, panicked, fault>>

\* RoutineSequentialSender waits for the encryption of the element it
\* holds and hands it to the network.
SenderTransmit(p, id) ==
    /\ id \in inHand[p] \cap encDone[p]
    /\ sentLog' = [sentLog EXCEPT ![p] = Append(@, id)]
    /\ inHand' = [inHand EXCEPT ![p] = @ \ {id}]
    /\ encDone' = [encDone EXCEPT ![p] = @ \ {id}]
    /\ UNCHANGED <<devVars, queueLock, queueVars, routineVars, sessionVars,
                   endpoint, extVars, queueReaders, prodPc, prodDir, outQ,
                   nextId, threadVars, panicked, fault>>

\* ------------------------------------------------------- session events
\* The handshake and transport paths of a running peer. They check
\* peer.isRunning before they touch the session.

\* A handshake initiation is created: the old index is released, a fresh
\* one is registered for the peer, ephemeral secrets are set and the
\* last-sent-handshake time is now.
BeginHandshake(p, i) ==
    /\ p \in keyMap
    /\ isRunning[p]
    /\ IndexTableDelete(indexTable, localIndex[p])[i] = NoPeer
    /\ indexTable' = [IndexTableDelete(indexTable, localIndex[p])
                         EXCEPT ![i] = p]
    /\ localIndex' = [localIndex EXCEPT ![p] = i]
    /\ hsSecret' = [hsSecret EXCEPT ![p] = TRUE]
    /\ lastSentExpired' = [lastSentExpired EXCEPT ![p] = FALSE]
    /\ MarkDirty(p)
    /\ UNCHANGED <<frame, isClosed, isUp, keyMap, peersLock, encWg, queueLock,
                   queueVars, routineVars, keypairs, endpoint, extVars,
                   pipeVars, pc, arg, ret, panicked, fault>>

\* The handshake in flight completes: the negotiated keypair goes to "next".
DeriveKeypair(p) ==
    /\ p \in keyMap
    /\ isRunning[p]
    /\ hsSecret[p]
    /\ keypairs' = [keypairs EXCEPT ![p].next = NewKeypair]
    /\ MarkDirty(p)
    /\ UNCHANGED <<frame, devVars, queueLock, queueVars, routineVars,
                   lastSentExpired, hsSecret, localIndex, endpoint, extVars,
                   pipeVars, pc, arg, ret, panicked, fault>>

\* A transport message arrives under "next": it becomes "current", the old
\* current becomes "previous" and the old previous is dropped.
PromoteNext(p) ==
    /\ p \in keyMap
    /\ isRunning[p]
    /\ keypairs[p].next.present
    /\ keypairs' = [keypairs EXCEPT ![p] =
                       [previous |-> @.current, current |-> @.next,
                        next |-> NilKeypair]]
    /\ MarkDirty(p)
    /\ UNCHANGED <<frame, devVars, queueLock, queueVars, routineVars,
                   lastSentExpired, hsSecret, localIndex, endpoint, extVars,
                   pipeVars, pc, arg, ret, panicked, fault>>

\* a keypair hands out send counters while its counter is below
\* RejectAfterMessages; from there on it refuses to encrypt
IssuesCounter(kp) == kp.present /\ kp.sendNonce < RejectAfterMessages

\* The transport path encrypts a packet under the current keypair: it takes
\* the keypair's send counter and advances it by one.
TakeSendNonce(p) ==
    /\ p \in keyMap
    /\ isRunning[p]
    /\ IssuesCounter(keypairs[p].current)
    /\ keypairs' = [keypairs EXCEPT ![p].current.sendNonce = @ + 1]
    /\ UNCHANGED <<devVars, queueLock, queueVars, routineVars,
                   lastSentExpired, hsSecret, localIndex, endpoint, extVars,
                   pipeVars, threadVars, panicked, fault>>

\* An outbound packet is staged; a full staged queue drops its oldest.
StagePacket(p) ==
    /\ p \in keyMap
    /\ isRunning[p]
    /\ staged[p].st = "open"
    /\ stagedLen' = [stagedLen EXCEPT ![p] =
                        IF @ < QueueStagedSize THEN @ + 1 ELSE @]
    /\ MarkDirty(p)
    /\ UNCHANGED <<frame, devVars, queueLock, isRunning, outbound, inbound,
                   staged, routineVars, sessionVars, endpoint, extVars,
                   pipeVars, pc, arg, ret, panicked, fault>>

\* --------------------------------------------------------- device state
DeviceUp ==
    /\ ~isClosed
    /\ ~isUp
    /\ isUp' = TRUE
    /\ UNCHANGED <<isClosed, keyMap, peersLock, encWg, indexTable, queueLock,
                   queueVars, routineVars, sessionVars, endpoint, extVars,
                   pipeVars, threadVars, panicked, fault>>

DeviceDown ==
    /\ isUp
    /\ isUp' = FALSE
    /\ UNCHANGED <<isClosed, keyMap, peersLock, encWg, indexTable, queueLock,
                   queueVars, routineVars, sessionVars, endpoint, extVars,
                   pipeVars, threadVars, panicked, fault>>

\* Device.Close sets isClosed first; isUp is cleared later (DeviceDown).
DeviceClose ==
    /\ ~isClosed
    /\ isClosed' = TRUE
    /\ UNCHANGED <<isUp, keyMap, peersLock, encWg, indexTable, queueLock,
                   queueVars, routineVars, sessionVars, endpoint, extVars,
                   pipeVars, threadVars, panicked, fault>>

\* --------------------------------------------------------- Device.NewPeer
CallNewPeer(t, pk) ==
    /\ pc[t] = "idle"
    /\ pc' = [pc EXCEPT ![t] = "NewPeer_65"]
    /\ arg' = [arg EXCEPT ![t] = pk]
    /\ ret' = [ret EXCEPT ![t] = ErrNone]
    /\ UNCHANGED <<devVars, queueLock, queueVars, routineVars, sessionVars,
                   endpoint, extVars, pipeVars, frame, zfaDirty, panicked,
                   fault>>

\* if device.isClosed.Get() { return nil, errors.New("device closed") }
NewPeerCheckClosed(t) ==
    /\ pc[t] = "NewPeer_65"
    /\ IF isClosed
         THEN /\ Goto(t, "NewPeer_66")
              /\ ret' = [ret EXCEPT ![t] = ErrDeviceClosed]
         ELSE Goto(t, "NewPeer_73") /\ UNCHANGED ret
    /\ UNCHANGED <<devVars, queueLock, queueVars, routineVars, sessionVars,
                   endpoint, extVars, pipeVars, arg, frame, zfaDirty,
                   panicked, fault>>

\* the return of line 66: no lock is held yet
NewPeerReturnClosed(t) ==
    /\ pc[t] = "NewPeer_66"
    /\ Return(t)
    /\ ret' = [ret EXCEPT ![t] = ErrNone]
    /\ UNCHANGED <<devVars, queueLock, queueVars, routineVars, sessionVars,
                   endpoint, extVars, pipeVars, frame, zfaDirty, panicked,
                   fault>>

\* device.peers.Lock() (the read lock on staticIdentity before it is never
\* contended here: nothing in this file writes the static identity)
NewPeerLock(t) ==
    /\ pc[t] = "NewPeer_73"
    /\ peersLock = NoThread
    /\ peersLock' = t
    /\ Goto(t, "NewPeer_77")
    /\ UNCHANGED <<isClosed, isUp, keyMap, encWg, indexTable, queueLock,
                   queueVars, routineVars, sessionVars, endpoint, extVars,
                   pipeVars, arg, ret, frame, zfaDirty, panicked, fault>>


\* Slip: the limit is compared with > instead of >=.
NewPeerCheckLimit_OffByOne(t) ==
    /\ pc[t] = "NewPeer_77"
    /\ IF Cardinality(keyMap) > MaxPeers
         THEN /\ Goto(t, "NewPeer_78")
              /\ ret' = [ret EXCEPT ![t] = ErrTooManyPeers]
         ELSE Goto(t, "NewPeer_90") /\ UNCHANGED ret
    /\ UNCHANGED <<devVars, queueLock, queueVars, routineVars, sessionVars,
                   endpoint, extVars, pipeVars, arg, frame, zfaDirty,
                   panicked, fault>>

\* if len(device.peers.keyMap) >= MaxPeers { return ..."too many peers" }
NewPeerCheckLimit(t) ==
    /\ pc[t] = "NewPeer_77"
    /\ IF Cardinality(keyMap) >= MaxPeers
         THEN /\ Goto(t, "NewPeer_78")
              /\ ret' = [ret EXCEPT ![t] = ErrTooManyPeers]
         ELSE Goto(t, "NewPeer_90") /\ UNCHANGED ret
    /\ UNCHANGED <<devVars, queueLock, queueVars, routineVars, sessionVars,
                   endpoint, extVars, pipeVars, arg, frame, zfaDirty,
                   panicked, fault>>


\* Slip: the key map is not looked up and the new peer replaces the old.
NewPeerCheckExisting_Skip(t) ==
    /\ pc[t] = "NewPeer_90"
    /\ Goto(t, "NewPeer_96")
    /\ UNCHANGED <<devVars, queueLock, queueVars, routineVars, sessionVars,
                   endpoint, extVars, pipeVars, arg, ret, frame, zfaDirty,
                   panicked, fault>>

\* _, ok := device.peers.keyMap[pk]; if ok { return ..."adding existing peer" }
\* (the peer object made on lines 82-87 is dropped on this return)
NewPeerCheckExisting(t) ==
    /\ pc[t] = "NewPeer_90"
    /\ IF arg[t] \in keyMap
         THEN /\ Goto(t, "NewPeer_92")
              /\ ret' = [ret EXCEPT ![t] = ErrExistingPeer]
         ELSE Goto(t, "NewPeer_96") /\ UNCHANGED ret
    /\ UNCHANGED <<devVars, queueLock, queueVars, routineVars, sessionVars,
                   endpoint, extVars, pipeVars, arg, frame, zfaDirty,
                   panicked, fault>>

\* lines 96-107: the static-static secret is precomputed (it is no
\* ephemeral secret of the handshake), the endpoint is reset and the peer
\* is entered into the key map
NewPeerRegister(t) ==
    /\ pc[t] = "NewPeer_96"
    /\ endpoint' = [endpoint EXCEPT ![arg[t]] = 0]
    /\ keyMap' = keyMap \cup {arg[t]}
    /\ Goto(t, "NewPeer_110")
    /\ UNCHANGED <<isClosed, isUp, peersLock, encWg, indexTable, queueLock,
                   queueVars, routineVars, sessionVars, extVars, pipeVars,
                   arg, ret, frame, zfaDirty, panicked, fault>>

\* the whole of Peer.Start on peer p, which no other goroutine can reach
\* yet: the new peer is found only through the key map, whose lock the
\* caller holds
StartInline(p) ==
    IF isClosed \/ isRunning[p]
      THEN UNCHANGED <<encWg, queueVars, routineVars, sessionVars>>
      ELSE /\ stopping[p] = 0
           /\ stopping' = [stopping EXCEPT ![p] = @ + 2]
           /\ lastSentExpired' = [lastSentExpired EXCEPT ![p] = TRUE]
           /\ outbound' = [outbound EXCEPT ![p] = MakeChan(@)]
           /\ inbound' = [inbound EXCEPT ![p] = MakeChan(@)]
           /\ staged' = [staged EXCEPT ![p] =
                            IF @.st = "nil" THEN MakeChan(@) ELSE @]
           /\ encWg' = encWg + 1
           /\ timersActive' = [timersActive EXCEPT ![p] = TRUE]
           /\ senders' = [senders EXCEPT ![p] = @ + 1]
           /\ receivers' = [receivers EXCEPT ![p] = @ + 1]
           /\ isRunning' = [isRunning EXCEPT ![p] = TRUE]
           /\ UNCHANGED <<stagedLen, keypairs, hsSecret, localIndex>>


\* Slip: the peer is started without asking whether the device is up.
NewPeerStart_Always(t) ==
    /\ pc[t] = "NewPeer_110"
    /\ StartInline(arg[t])
    /\ Goto(t, "NewPeer_114")
    /\ UNCHANGED <<isClosed, isUp, keyMap, peersLock, indexTable, queueLock,
                   endpoint, extVars, pipeVars, arg, ret, frame, zfaDirty,
                   panicked, fault>>

\* if peer.device.isUp.Get() { peer.Start() }
NewPeerStart(t) ==
    /\ pc[t] = "NewPeer_110"
    /\ IF isUp
         THEN StartInline(arg[t])
         ELSE UNCHANGED <<encWg, queueVars, routineVars, sessionVars>>
    /\ Goto(t, "NewPeer_114")
    /\ UNCHANGED <<isClosed, isUp, keyMap, peersLock, indexTable, queueLock,
                   endpoint, extVars, pipeVars, arg, ret, frame, zfaDirty,
                   panicked, fault>>

\* a return with the peers lock held (lines 78, 92, 114): the deferred
\* unlocks run
NewPeerReturn(t) ==
    /\ pc[t] \in {"NewPeer_78", "NewPeer_92", "NewPeer_114"}
    /\ peersLock' = NoThread
    /\ Return(t)
    /\ ret' = [ret EXCEPT ![t] = ErrNone]
    /\ UNCHANGED <<isClosed, isUp, keyMap, encWg, indexTable, queueLock,
                   queueVars, routineVars, sessionVars, endpoint, extVars,
                   pipeVars, frame, zfaDirty, panicked, fault>>

\* ------------------------------------------------------- Peer.SendBuffer
\* A caller hands a buffer of n bytes to peer.SendBuffer.
CallSendBuffer(t, p, n) ==
    /\ pc[t] = "idle"
    /\ p \in keyMap
    /\ txBytes[p] + n <= MaxTxBytes
    /\ pc' = [pc EXCEPT ![t] = "Send_118"]
    /\ arg' = [arg EXCEPT ![t] = p]
    /\ buf' = [buf EXCEPT ![t] = n]
    /\ UNCHANGED <<devVars, queueLock, queueVars, routineVars, sessionVars,
                   endpoint, netVars, statVars, ret, frame, zfaDirty,
                   panicked, pipeVars, fault>>

\* peer.device.net.RLock(); defer peer.device.net.RUnlock()
\* if peer.device.net.bind == nil
\* (the bind cannot change while the read lock is held)
SendCheckBind(t) ==
    /\ pc[t] = "Send_118"
    /\ netReaders' = netReaders + 1
    /\ Goto(t, IF bind THEN "Send_130" ELSE "Send_124")
    /\ UNCHANGED <<devVars, queueLock, queueVars, routineVars, sessionVars,
                   endpoint, bind, peerReaders, disableRoaming, statVars, buf,
                   arg, ret, frame, zfaDirty, panicked, pipeVars, fault>>

\* if peer.device.isClosed.Get() { return nil }; return errors.New("no bind")
SendCheckClosed(t) ==
    /\ pc[t] = "Send_124"
    /\ IF isClosed
         THEN /\ Goto(t, "Send_125")
              /\ ret' = [ret EXCEPT ![t] = ErrNone]
         ELSE /\ Goto(t, "Send_127")
              /\ ret' = [ret EXCEPT ![t] = ErrNoBind]
    /\ UNCHANGED <<devVars, queueLock, queueVars, routineVars, sessionVars,
                   endpoint, extVars, pipeVars, arg, frame, zfaDirty,
                   panicked, fault>>

\* peer.RLock(); defer peer.RUnlock()
\* if peer.endpoint == nil { return ..."no known endpoint for peer" }
\* (the endpoint cannot change while the read lock is held)
SendCheckEndpoint(t) ==
    /\ pc[t] = "Send_130"
    /\ peerReaders' = [peerReaders EXCEPT ![arg[t]] = @ + 1]
    /\ IF endpoint[arg[t]] = NilEndpoint
         THEN /\ Goto(t, "Send_134")
              /\ ret' = [ret EXCEPT ![t] = ErrNoEndpoint]
         ELSE Goto(t, "Send_137") /\ UNCHANGED ret
    /\ UNCHANGED <<devVars, queueLock, queueVars, routineVars, sessionVars,
                   endpoint, bind, netReaders, disableRoaming, statVars, buf,
                   arg, frame, zfaDirty, panicked, pipeVars, fault>>

\* Slip: the byte count is added whether or not the send succeeded.
SendSend_CountFailed(t, err) ==
    /\ pc[t] = "Send_137"
    /\ ret' = [ret EXCEPT ![t] = err]
    /\ txBytes' = [txBytes EXCEPT ![arg[t]] = @ + buf[t]]
    /\ Goto(t, "Send_141")
    /\ UNCHANGED <<devVars, queueLock, queueVars, routineVars, sessionVars,
                   endpoint, netVars, rxBytes, buf, arg, frame, zfaDirty,
                   panicked, pipeVars, fault>>

\* err := peer.device.net.bind.Send(buffer, peer.endpoint)
\* if err == nil { atomic.AddUint64(&peer.stats.txBytes, uint64(len(buffer))) }
\* The network decides what Send returns.
SendSend(t, err) ==
    /\ pc[t] = "Send_137"
    /\ ret' = [ret EXCEPT ![t] = err]
    /\ txBytes' = [txBytes EXCEPT ![arg[t]] =
                      IF err = ErrNone THEN @ + buf[t] ELSE @]
    /\ Goto(t, "Send_141")
    /\ UNCHANGED <<devVars, queueLock, queueVars, routineVars, sessionVars,
                   endpoint, netVars, rxBytes, buf, arg, frame, zfaDirty,
                   panicked, pipeVars, fault>>

\* the return statements of lines 125 and 127: the deferred RUnlock of
\* device.net runs and the caller takes the result
SendReturnNoBind(t) ==
    /\ pc[t] \in {"Send_125", "Send_127"}
    /\ netReaders' = netReaders - 1
    /\ Return(t)
    /\ ret' = [ret EXCEPT ![t] = ErrNone]
    /\ buf' = [buf EXCEPT ![t] = 0]
    /\ UNCHANGED <<devVars, queueLock, queueVars, routineVars, sessionVars,
                   endpoint, bind, peerReaders, disableRoaming, statVars,
                   frame, zfaDirty, panicked, pipeVars, fault>>

\* the return statements of lines 134 and 141: both deferred RUnlocks run
\* and the caller takes the result
SendReturn(t) ==
    /\ pc[t] \in {"Send_134", "Send_141"}
    /\ peerReaders' = [peerReaders EXCEPT ![arg[t]] = @ - 1]
    /\ netReaders' = netReaders - 1
    /\ Return(t)
    /\ ret' = [ret EXCEPT ![t] = ErrNone]
    /\ buf' = [buf EXCEPT ![t] = 0]
    /\ UNCHANGED <<devVars, queueLock, queueVars, routineVars, sessionVars,
                   endpoint, bind, disableRoaming, statVars, frame, zfaDirty,
                   panicked, pipeVars, fault>>

\* ------------------------------------------- Peer.SetEndpointFromPacket
\* The receive path hands the source address a of an authenticated packet
\* to peer.SetEndpointFromPacket.
CallSetEndpointFromPacket(t, p, a) ==
    /\ pc[t] = "idle"
    /\ p \in keyMap
    /\ pc' = [pc EXCEPT ![t] = "SetEndpoint_261"]
    /\ arg' = [arg EXCEPT ![t] = p]
    /\ buf' = [buf EXCEPT ![t] = a]
    /\ UNCHANGED <<devVars, queueLock, queueVars, routineVars, sessionVars,
                   endpoint, netVars, statVars, ret, frame, zfaDirty,
                   panicked, pipeVars, fault>>

\* Slip: the roaming flag is not consulted.
SetEndpointCheckRoaming_Ignore(t) ==
    /\ pc[t] = "SetEndpoint_261"
    /\ Goto(t, "SetEndpoint_264")
    /\ UNCHANGED <<devVars, queueLock, queueVars, routineVars, sessionVars,
                   endpoint, extVars, pipeVars, arg, ret, frame, zfaDirty,
                   panicked, fault>>

\* if peer.disableRoaming { return }
SetEndpointCheckRoaming(t) ==
    /\ pc[t] = "SetEndpoint_261"
    /\ Goto(t, IF disableRoaming[arg[t]] THEN "SetEndpoint_262"
                                         ELSE "SetEndpoint_264")
    /\ UNCHANGED <<devVars, queueLock, queueVars, routineVars, sessionVars,
                   endpoint, extVars, pipeVars, arg, ret, frame, zfaDirty,
                   panicked, fault>>

\* peer.Lock(); peer.endpoint = endpoint; peer.Unlock()
\* The write lock is granted once no SendBuffer holds the read lock.
SetEndpointAssign(t) ==
    /\ pc[t] = "SetEndpoint_264"
    /\ peerReaders[arg[t]] = 0
    /\ endpoint' = [endpoint EXCEPT ![arg[t]] = buf[t]]
    /\ Goto(t, "SetEndpoint_267")
    /\ UNCHANGED <<devVars, queueLock, queueVars, routineVars, sessionVars,
                   extVars, pipeVars, arg, ret, frame, zfaDirty, panicked,
                   fault>>

SetEndpointReturn(t) ==
    /\ pc[t] \in {"SetEndpoint_262", "SetEndpoint_267"}
    /\ Return(t)
    /\ buf' = [buf EXCEPT ![t] = 0]
    /\ UNCHANGED <<devVars, queueLock, queueVars, routineVars, sessionVars,
                   endpoint, netVars, statVars, ret, frame, zfaDirty,
                   panicked, pipeVars, fault>>

\* A complete SendBuffer call of the transport path that found a bind and
\* an endpoint and whose Send succeeded: of the state kept here it changes
\* txBytes (line 139) and nothing else.
SendBufferDone(p, n) ==
    /\ p \in keyMap
    /\ bind /\ endpoint[p] # NilEndpoint
    /\ txBytes[p] + n <= MaxTxBytes
    /\ txBytes' = [txBytes EXCEPT ![p] = @ + n]
    /\ UNCHANGED <<devVars, queueLock, queueVars, routineVars, sessionVars,
                   endpoint, netVars, rxBytes, buf, threadVars, panicked,
                   pipeVars, fault>>

\* The receive path of a running peer accounts an inbound packet of n bytes.
ReceiveBytes(p, n) ==
    /\ p \in keyMap
    /\ isRunning[p]
    /\ rxBytes[p] + n <= MaxBufLen
    /\ rxBytes' = [rxBytes EXCEPT ![p] = @ + n]
    /\ UNCHANGED <<devVars, queueLock, queueVars, routineVars, sessionVars,
                   endpoint, netVars, txBytes, buf, threadVars, panicked,
                   pipeVars, fault>>

\* ------------------------------------------------- network and settings
\* The device binds a socket (BindUpdate) or drops it (BindClose); both
\* hold device.net's write lock.
BindSet(b) ==
    /\ netReaders = 0
    /\ bind # b
    /\ bind' = b
    /\ UNCHANGED <<devVars, queueLock, queueVars, routineVars, sessionVars,
                   endpoint, netReaders, peerReaders, disableRoaming,
                   statVars, buf, threadVars, panicked, pipeVars, fault>>

\* The control plane switches roaming of a peer off or on.
SetDisableRoaming(p, b) ==
    /\ p \in keyMap
    /\ disableRoaming[p] # b
    /\ disableRoaming' = [disableRoaming EXCEPT ![p] = b]
    /\ UNCHANGED <<devVars, queueLock, queueVars, routineVars, sessionVars,
                   endpoint, bind, netReaders, peerReaders, statVars, buf,
                   threadVars, panicked, pipeVars, fault>>

\* ------------------------------------------------------- specifications
\* The life of one peer: it was created while the device was down, so it
\* is registered and not running, and callers, routines and session events
\* act on it concurrently.
Init ==
    /\ InitCommon
    /\ keyMap = {1}

Next ==
    \/ \E t \in Threads, p \in Keys :
          \/ CallStart(t, p)
          \/ CallStop(t, p)
    \/ \E t \in Threads :
          \/ StartCheckClosed(t)
          \/ StartReturnClosed(t)
          \/ StartLock(t)
          \/ StartCheckRunning(t)
          \/ StartReturnRunning(t)
          \/ StartWaitStopping(t)
          \/ StartAddStopping(t)
          \/ StartLastSent(t)
          \/ StartMakeQueues(t)
          \/ StartEncryptionAdd(t)
          \/ StartTimersInit(t)
          \/ StartGoSender(t)
          \/ StartGoReceiver(t)
          \/ StartSetRunning(t)
          \/ StartReturn(t)
    \/ \E t \in Threads :
          \/ StopLock(t)
          \/ StopSwapRunning(t)
          \/ StopReturnNotRunning(t)
          \/ StopTimers(t)
          \/ StopCloseInbound(t)
          \/ StopCloseOutbound(t)
          \/ StopWaitStopping(t)
          \/ StopEncryptionDone(t)
          \/ StopZeroAndFlushAll(t)
          \/ ZeroKeypairs(t)
          \/ ZeroHandshake(t)
          \/ FlushStaged(t)
          \/ ZeroAndFlushAllReturn(t)
          \/ StopReturn(t)
    \/ \E p \in Keys :
          \/ SenderExit(p)
          \/ ReceiverExit(p)
          \/ \E i \in Indices : BeginHandshake(p, i)
          \/ DeriveKeypair(p)
          \/ PromoteNext(p)
          \/ StagePacket(p)
    \/ DeviceClose

Spec == Init /\ [][Next]_vars

\* The registry: concurrent NewPeer calls on a device that goes up and
\* down and is closed.
InitRegistry ==
    /\ InitCommon
    /\ keyMap = {}

NextRegistry ==
    \/ \E t \in Threads, pk \in Keys : CallNewPeer(t, pk)
    \/ \E t \in Threads :
          \/ NewPeerCheckClosed(t)
          \/ NewPeerReturnClosed(t)
          \/ NewPeerLock(t)
          \/ NewPeerCheckLimit(t)
          \/ NewPeerCheckExisting(t)
          \/ NewPeerRegister(t)
          \/ NewPeerStart(t)
          \/ NewPeerReturn(t)
    \/ DeviceUp
    \/ DeviceDown
    \/ DeviceClose

SpecRegistry == InitRegistry /\ [][NextRegistry]_vars

\* The session of one running peer: it was created while the device was up,
\* so NewPeer started it; the zero-key-material timer and the control plane
\* call ZeroAndFlushAll and ExpireCurrentKeypairs while session events go on.
\* One peer made by Device.NewPeer while the device was up: it is running,
\* with open queues, one sender, one receiver and armed timers.
InitRunningPeer ==
    /\ isClosed = FALSE
    /\ isUp = TRUE
    /\ keyMap = {1}
    /\ peersLock = NoThread
    /\ encWg = 1
    /\ indexTable = [i \in Indices |-> NoPeer]
    /\ isRunning = [p \in Keys |-> p = 1]
    /\ queueLock = [p \in Keys |-> NoThread]
    /\ outbound = [p \in Keys |-> IF p = 1 THEN MakeChan(NilChan) ELSE NilChan]
    /\ inbound = [p \in Keys |-> IF p = 1 THEN MakeChan(NilChan) ELSE NilChan]
    /\ staged = [p \in Keys |-> IF p = 1 THEN MakeChan(NilChan) ELSE NilChan]
    /\ stagedLen = [p \in Keys |-> 0]
    /\ stopping = [p \in Keys |-> IF p = 1 THEN 2 ELSE 0]
    /\ senders = [p \in Keys |-> IF p = 1 THEN 1 ELSE 0]
    /\ receivers = [p \in Keys |-> IF p = 1 THEN 1 ELSE 0]
    /\ timersActive = [p \in Keys |-> p = 1]
    /\ lastSentExpired = [p \in Keys |-> p = 1]
    /\ keypairs = [p \in Keys |-> NilKeypairs]
    /\ hsSecret = [p \in Keys |-> FALSE]
    /\ localIndex = [p \in Keys |-> NoIndex]
    /\ pc = [t \in Threads |-> "idle"]
    /\ arg = [t \in Threads |-> NoPeer]
    /\ ret = [t \in Threads |-> ErrNone]
    /\ frame = [t \in Threads |-> "none"]
    /\ zfaDirty = [t \in Threads |-> FALSE]
    /\ panicked = NoPanic

InitSession ==
    /\ InitRunningPeer
    /\ endpoint = [p \in Keys |-> NilEndpoint]
    /\ InitExt
    /\ InitPipe

NextSession ==
    \/ \E t \in Threads, p \in Keys :
          \/ CallZeroAndFlushAll(t, p)
          \/ CallExpireCurrentKeypairs(t, p)
    \/ \E t \in Threads :
          \/ ZeroKeypairs(t)
          \/ ZeroHandshake(t)
          \/ FlushStaged(t)
          \/ ZeroAndFlushAllReturn(t)
          \/ ExpireHandshake(t)
          \/ ExpireKeypairs(t)
          \/ ExpireReturn(t)
    \/ \E p \in Keys :
          \/ \E i \in Indices : BeginHandshake(p, i)
          \/ DeriveKeypair(p)
          \/ PromoteNext(p)
          \/ StagePacket(p)
          \/ TakeSendNonce(p)

SpecSession == InitSession /\ [][NextSession]_vars

\* The transmit specification: one registered peer, callers of SendBuffer
\* and SetEndpointFromPacket, a socket that comes and goes, the roaming
\* setting, and the device closing.
InitSend == Init

NextSend ==
    \/ \E t \in Threads, p \in Keys :
          \/ \E n \in BufLens : CallSendBuffer(t, p, n)
          \/ \E a \in Addrs : CallSetEndpointFromPacket(t, p, a)
    \/ \E t \in Threads :
          \/ SendCheckBind(t)
          \/ SendCheckClosed(t)
          \/ SendCheckEndpoint(t)
          \/ \E err \in {ErrNone, ErrSend} : SendSend(t, err)
          \/ SendReturnNoBind(t)
          \/ SendReturn(t)
          \/ SetEndpointCheckRoaming(t)
          \/ SetEndpointAssign(t)
          \/ SetEndpointReturn(t)
    \/ \E b \in BOOLEAN : BindSet(b)
    \/ \E p \in Keys, b \in BOOLEAN : SetDisableRoaming(p, b)
    \/ DeviceClose

SpecSend == InitSend /\ [][NextSend]_vars

\* The statistics specification: one running peer with a bound socket and a
\* learned endpoint carries traffic while callers start it, stop it and
\* expire its keypairs and handshakes come and go.
InitCounters ==
    /\ InitRunningPeer
    /\ endpoint = [p \in Keys |-> IF p = 1 THEN 1 ELSE NilEndpoint]
    /\ bind = TRUE
    /\ netReaders = 0
    /\ peerReaders = [p \in Keys |-> 0]
    /\ disableRoaming = [p \in Keys |-> FALSE]
    /\ txBytes = [p \in Keys |-> 0]
    /\ rxBytes = [p \in Keys |-> 0]
    /\ buf = [t \in Threads |-> 0]
    /\ InitPipe

NextCounters ==
    \/ \E t \in Threads, p \in Keys :
          \/ CallStart(t, p)
          \/ CallStop(t, p)
          \/ CallExpireCurrentKeypairs(t, p)
    \/ \E t \in Threads :
          \/ StartCheckClosed(t)
          \/ StartLock(t)
          \/ StartCheckRunning(t)
          \/ StartReturnRunning(t)
          \/ StartWaitStopping(t)
          \/ StartAddStopping(t)
          \/ StartLastSent(t)
          \/ StartMakeQueues(t)
          \/ StartEncryptionAdd(t)
          \/ StartTimersInit(t)
          \/ StartGoSender(t)
          \/ StartGoReceiver(t)
          \/ StartSetRunning(t)
          \/ StartReturn(t)
    \/ \E t \in Threads :
          \/ StopLock(t)
          \/ StopSwapRunning(t)
          \/ StopReturnNotRunning(t)
          \/ StopTimers(t)
          \/ StopCloseInbound(t)
          \/ StopCloseOutbound(t)
          \/ StopWaitStopping(t)
          \/ StopEncryptionDone(t)
          \/ StopZeroAndFlushAll(t)
          \/ ZeroKeypairs(t)
          \/ ZeroHandshake(t)
          \/ FlushStaged(t)
          \/ ZeroAndFlushAllReturn(t)
          \/ StopReturn(t)
          \/ ExpireHandshake(t)
          \/ ExpireKeypairs(t)
          \/ ExpireReturn(t)
    \/ \E p \in Keys :
          \/ SenderExit(p)
          \/ ReceiverExit(p)
          \/ \E i \in Indices : BeginHandshake(p, i)
          \/ DeriveKeypair(p)
          \/ SendBufferDone(p, MaxBufLen)
          \/ ReceiveBytes(p, MaxBufLen)

SpecCounters == InitCounters /\ [][NextCounters]_vars

\* The pipeline specification: one registered peer is started and stopped
\* while a producer feeds its queues, encryption workers finish elements in
\* any order and the sequential routines drain the queues.
InitPipeline == Init

NextPipeline ==
    \/ \E t \in Threads, p \in Keys :
          \/ CallStart(t, p)
          \/ CallStop(t, p)
    \/ \E t \in Threads :
          \/ StartCheckClosed(t)
          \/ StartLock(t)
          \/ StartCheckRunning(t)
          \/ StartReturnRunning(t)
          \/ StartWaitStopping(t)
          \/ StartAddStopping(t)
          \/ StartLastSent(t)
          \/ StartMakeQueues(t)
          \/ StartEncryptionAdd(t)
          \/ StartTimersInit(t)
          \/ StartGoSender(t)
          \/ StartGoReceiver(t)
          \/ StartSetRunning(t)
          \/ StartReturn(t)
    \/ \E t \in Threads :
          \/ StopLock(t)
          \/ StopSwapRunning(t)
          \/ StopReturnNotRunning(t)
          \/ StopTimers(t)
          \/ StopCloseInbound(t)
          \/ StopCloseOutbound(t)
          \/ StopWaitStopping(t)
          \/ StopEncryptionDone(t)
          \/ StopZeroAndFlushAll(t)
          \/ ZeroKeypairs(t)
          \/ ZeroHandshake(t)
          \/ FlushStaged(t)
          \/ ZeroAndFlushAllReturn(t)
          \/ StopReturn(t)
    \/ \E p \in Keys :
          \/ \E d \in {"out", "in"} : ProducerRLock(p, d)
          \/ ProducerCheck(p)
          \/ ProducerSend(p)
          \/ ProducerRUnlock(p)
          \/ \E id \in 1..MaxPackets : EncryptDone(p, id)
          \/ SenderDequeue(p)
          \/ \E id \in 1..MaxPackets : SenderTransmit(p, id)
          \/ SenderExit(p)
          \/ ReceiverExit(p)

SpecPipeline == InitPipeline /\ [][NextPipeline]_vars

\* the next statement of thread t inside Start, Stop or ZeroAndFlushAll
LifecycleStep(t) ==
    \/ StartCheckClosed(t)
    \/ StartLock(t)
    \/ StartCheckRunning(t)
    \/ StartReturnRunning(t)
    \/ StartWaitStopping(t)
    \/ StartAddStopping(t)
    \/ StartLastSent(t)
    \/ StartMakeQueues(t)
    \/ StartEncryptionAdd(t)
    \/ StartTimersInit(t)
    \/ StartGoSender(t)
    \/ StartGoReceiver(t)
    \/ StartSetRunning(t)
    \/ StartReturn(t)
    \/ StopLock(t)
    \/ StopSwapRunning(t)
    \/ StopReturnNotRunning(t)
    \/ StopTimers(t)
    \/ StopCloseInbound(t)
    \/ StopCloseOutbound(t)
    \/ StopWaitStopping(t)
    \/ StopEncryptionDone(t)
    \/ StopZeroAndFlushAll(t)
    \/ ZeroKeypairs(t)
    \/ ZeroHandshake(t)
    \/ FlushStaged(t)
    \/ ZeroAndFlushAllReturn(t)
    \/ StopReturn(t)

\* the next step of the producer of p once it holds the read lock
ProducerStep(p) ==
    \/ ProducerCheck(p)
    \/ ProducerSend(p)
    \/ ProducerRUnlock(p)

\* the next step of a caller inside Start, Stop, ZeroAndFlushAll or
\* ExpireCurrentKeypairs
CallerStep(t) ==
    \/ LifecycleStep(t)
    \/ ExpireHandshake(t)
    \/ ExpireKeypairs(t)
    \/ ExpireReturn(t)

\* the goroutine that also calls ZeroAndFlushAll and ExpireCurrentKeypairs
\* on their own, as the timers and the configuration interface do
SessionCaller == NumThreads

\* The liveness specification: every goroutine calls Start and Stop, one of
\* them also ZeroAndFlushAll and ExpireCurrentKeypairs, the decryption
\* stage feeds the inbound queue, and the two routines leave once their
\* queue is closed.
NextLive ==
    \/ \E t \in Threads, p \in Keys :
          \/ CallStart(t, p)
          \/ CallStop(t, p)
    \/ \E p \in Keys :
          \/ CallZeroAndFlushAll(SessionCaller, p)
          \/ CallExpireCurrentKeypairs(SessionCaller, p)
    \/ \E t \in Threads : CallerStep(t)
    \/ \E p \in Keys :
          \/ SenderExit(p)
          \/ ReceiverExit(p)
          \/ ProducerRLock(p, "in")
          \/ ProducerCheck(p)
          \/ ProducerSend(p)
          \/ ProducerRUnlock(p)

\* The scheduler runs every goroutine that can run, a goroutine waiting for
\* a sync.Mutex or the write side of a sync.RWMutex gets it in the end (the
\* starvation mode of sync.Mutex, the writer preference of sync.RWMutex),
\* and each routine leaves once its queue is closed and drained.
Fairness ==
    /\ \A t \in Threads : SF_vars(CallerStep(t))
    /\ \A p \in Keys :
          /\ WF_vars(ProducerStep(p))
          /\ WF_vars(SenderExit(p))
          /\ WF_vars(ReceiverExit(p))

SpecLive == Init /\ [][NextLive]_vars /\ Fairness

\* The two-peer specification: two peers made while the device was down
\* are started and stopped by concurrent callers.
InitPeers ==
    /\ InitCommon
    /\ keyMap = {1, 2}

NextPeers ==
    \/ \E t \in Threads, p \in Keys :
          \/ CallStart(t, p)
          \/ CallStop(t, p)
    \/ \E t \in Threads :
          \/ StartCheckClosed(t)
          \/ StartLock(t)
          \/ StartCheckRunning(t)
          \/ StartReturnRunning(t)
          \/ StartWaitStopping(t)
          \/ StartAddStopping(t)
          \/ StartLastSent(t)
          \/ StartMakeQueues(t)
          \/ StartEncryptionAdd(t)
          \/ StartTimersInit(t)
          \/ StartGoSender(t)
          \/ StartGoReceiver(t)
          \/ StartSetRunning(t)
          \/ StartReturn(t)
    \/ \E t \in Threads :
          \/ StopLock(t)
          \/ StopSwapRunning(t)
          \/ StopReturnNotRunning(t)
          \/ StopTimers(t)
          \/ StopCloseInbound(t)
          \/ StopCloseOutbound(t)
          \/ StopWaitStopping(t)
          \/ StopEncryptionDone(t)
          \/ StopZeroAndFlushAll(t)
          \/ ZeroKeypairs(t)
          \/ ZeroHandshake(t)
          \/ FlushStaged(t)
          \/ ZeroAndFlushAllReturn(t)
          \/ StopReturn(t)
    \/ \E p \in Keys :
          \/ SenderExit(p)
          \/ ReceiverExit(p)

SpecPeers == InitPeers /\ [][NextPeers]_vars

\* ================================================================ claims
StartBodyPcs ==
    {"Start_163", "Start_164", "Start_171", "Start_172", "Start_174",
     "Start_179", "Start_184", "Start_186", "Start_188", "Start_189",
     "Start_191", "Start_192"}
StopBodyPcs ==
    {"Stop_244", "Stop_245", "Stop_250", "Stop_252", "Stop_253", "Stop_254",
     "Stop_255", "Stop_257", "Stop_258"}
ZfaPcs == {"ZFA_200", "ZFA_212", "ZFA_217", "ZFA_218"}

\* thread t is between the Lock and the deferred Unlock of Start or Stop on p
InStartStopBody(t, p) ==
    /\ arg[t] = p
    /\ \/ pc[t] \in StartBodyPcs \cup StopBodyPcs
       \/ pc[t] \in ZfaPcs /\ frame[t] = "Stop"

NilOrClosed(c) == c.st \in {"nil", "closed"}

NoKeyMaterial(p) ==
    /\ keypairs[p] = NilKeypairs
    /\ ~hsSecret[p]
    /\ localIndex[p] = NoIndex

\* C1: in every reachable state, in the middle of Start and Stop calls and
\* under concurrent callers too, a peer whose running flag is set has an
\* outbound and an inbound queue that are non-nil and not closed.
C1_RunningImpliesQueuesOpen ==
    \A p \in Keys : isRunning[p] => IsOpen(outbound[p]) /\ IsOpen(inbound[p])

\* a running peer in its second run, one caller about to swap the flag in
\* Stop while another waits for the queue lock in Start
C1_Witness ==
    \E t, u \in Threads :
        /\ pc[t] = "Stop_244" /\ pc[u] = "Start_160"
        /\ isRunning[1] /\ outbound[1].gen = 2

\* C2 as stated: in every reachable state a peer whose running flag is
\* clear has outbound and inbound queues that are nil or closed.
C2_Original ==
    \A p \in Keys :
        ~isRunning[p] => NilOrClosed(outbound[p]) /\ NilOrClosed(inbound[p])

\* C2 amended: whenever no Start or Stop call holds the queue lock of a
\* peer, a clear running flag means its outbound and inbound queues are nil
\* or closed.
C2_NotRunningImpliesQueuesGone ==
    \A p \in Keys :
        (~isRunning[p] /\ queueLock[p] = NoThread)
            => NilOrClosed(outbound[p]) /\ NilOrClosed(inbound[p])

\* a stopped peer, its queues closed, nobody inside Start or Stop
C2_Witness ==
    /\ ~isRunning[1] /\ queueLock[1] = NoThread
    /\ outbound[1].st = "closed" /\ inbound[1].st = "closed"
    /\ \A t \in Threads : pc[t] = "idle"

\* C3: under any interleaving of Start and Stop calls on a peer at most one
\* caller is inside the body of Start or Stop, and no close ever hits a nil
\* or an already closed queue (nor any other panic is raised).
C3_StartStopExclusive ==
    /\ panicked = NoPanic
    /\ \A p \in Keys :
          \A t, u \in Threads :
              (InStartStopBody(t, p) /\ InStartStopBody(u, p)) => t = u

\* one caller has closed both queues in Stop while another Stop and hence a
\* second close is held back at the queue lock
C3_Witness ==
    \E t, u \in Threads :
        /\ pc[t] = "Stop_254" /\ pc[u] = "Stop_241" /\ arg[u] = arg[t]
        /\ outbound[arg[t]].st = "closed" /\ inbound[arg[t]].st = "closed"

\* C4: when a Stop returns, after any number of Start/Stop rounds, no
\* sequential routine of the peer is alive, the completion barrier is at
\* zero, the three keypair slots are empty and the handshake is cleared.
C4_StopLeavesNothing ==
    \A t \in Threads :
        pc[t] \in {"Stop_245", "Stop_258"} =>
            /\ senders[arg[t]] = 0 /\ receivers[arg[t]] = 0
            /\ stopping[arg[t]] = 0
            /\ NoKeyMaterial(arg[t])

\* the Stop that ends the second run of the peer is about to return
C4_Witness ==
    \E t \in Threads :
        /\ pc[t] = "Stop_258"
        /\ outbound[arg[t]] = [st |-> "closed", gen |-> 2]
        /\ ~isClosed

\* thread t takes a step of its own
Steps(t) == pc'[t] # pc[t]

\* C5: the key map never holds more than MaxPeers peers, however many
\* NewPeer calls run and race; a call that finds MaxPeers peers registered
\* goes no further than the limit check and returns "too many peers".
C5_PeerLimit ==
    /\ Cardinality(keyMap) <= MaxPeers
    /\ \A t \in Threads :
          /\ pc[t] \in {"NewPeer_90", "NewPeer_92", "NewPeer_96"}
                => Cardinality(keyMap) < MaxPeers
          /\ pc[t] = "NewPeer_78"
                => ret[t] = ErrTooManyPeers /\ Cardinality(keyMap) = MaxPeers

\* a call returns "too many peers" from a full registry while another
\* caller waits for the peers lock
C5_Witness ==
    \E t, u \in Threads :
        /\ pc[t] = "NewPeer_78" /\ ret[t] = ErrTooManyPeers
        /\ pc[u] = "NewPeer_73"
        /\ Cardinality(keyMap) = MaxPeers

\* a NewPeer call that holds the peers lock, has not registered anything
\* and whose key is in the key map
DuplicateCall(t) ==
    /\ pc[t] \in {"NewPeer_77", "NewPeer_78", "NewPeer_90", "NewPeer_92"}
    /\ arg[t] \in keyMap

\* C6 as stated: a NewPeer call on an open device with a key that is
\* already registered returns "adding existing peer" and leaves the key map
\* as it was.
C6_Original ==
    [][\A t \in Threads :
          (DuplicateCall(t) /\ Steps(t)) =>
              /\ keyMap' = keyMap
              /\ pc'[t] # "NewPeer_96"
              /\ pc'[t] = "idle" => ret[t] = ErrExistingPeer]_vars

\* C6 amended: such a call returns "adding existing peer" when fewer than
\* MaxPeers peers are registered and "too many peers" when MaxPeers are;
\* either way the key map is left as it was.
C6_DuplicateRejected ==
    [][\A t \in Threads :
          (DuplicateCall(t) /\ Steps(t)) =>
              /\ keyMap' = keyMap
              /\ pc'[t] # "NewPeer_96"
              /\ pc'[t] = "idle" =>
                    ret[t] = IF Cardinality(keyMap) >= MaxPeers
                               THEN ErrTooManyPeers
                               ELSE ErrExistingPeer]_vars

\* a call with a registered key returns "adding existing peer" from a
\* registry that is not full
C6_Witness ==
    \E t \in Threads :
        /\ pc[t] = "NewPeer_92" /\ ret[t] = ErrExistingPeer
        /\ arg[t] \in keyMap
        /\ Cardinality(keyMap) < MaxPeers

\* C7: when NewPeer succeeds the peer is in the key map under its key with
\* no endpoint; it is running, with open queues, one sender, one receiver
\* and armed timers, only if the device was up when NewPeer asked; created
\* on a device that is down or closed it is not running and has no queues,
\* routines or timers.
C7_NewPeerStartsOnlyWhenUp ==
    [][\A t \in Threads :
          (pc[t] = "NewPeer_110" /\ Steps(t)) =>
              LET p == arg[t] IN
              /\ pc'[t] = "NewPeer_114" /\ ret'[t] = ErrNone
              /\ p \in keyMap'
              /\ endpoint'[p] = 0
              /\ isRunning'[p] =>
                    /\ isUp
                    /\ IsOpen(outbound'[p]) /\ IsOpen(inbound'[p])
                    /\ IsOpen(staged'[p])
                    /\ senders'[p] = 1 /\ receivers'[p] = 1
                    /\ timersActive'[p]
              /\ (~isUp \/ isClosed) =>
                    /\ ~isRunning'[p]
                    /\ outbound'[p] = NilChan /\ inbound'[p] = NilChan
                    /\ staged'[p] = NilChan
                    /\ senders'[p] = 0 /\ receivers'[p] = 0
                    /\ stopping'[p] = 0
                    /\ ~timersActive'[p]]_vars

\* one NewPeer has just returned a running peer while a peer created
\* earlier, with the device down, is registered and not running
C7_Witness ==
    \E t \in Threads :
        /\ pc[t] = "NewPeer_114" /\ ret[t] = ErrNone
        /\ isRunning[arg[t]]
        /\ \E q \in keyMap : ~isRunning[q] /\ outbound[q] = NilChan

\* what Start and Stop act on: flag, queues, routines, timers, open-count
lifecycleVars ==
    <<isRunning, outbound, inbound, staged, stagedLen, stopping, senders,
      receivers, timersActive, encWg>>

\* C8: a Start that finds the device closed (line 155) or the peer running
\* (line 163) returns at once and changes nothing: no queue is replaced, no
\* routine is launched, the open-count and the running flag stay; and no
\* peer ever has more than one sender or more than one receiver.
C8_StartNoOp ==
    [][/\ \A p \in Keys : senders'[p] <= 1 /\ receivers'[p] <= 1
       /\ \A t \in Threads :
             /\ (pc[t] = "Start_155" /\ isClosed /\ Steps(t)) =>
                   pc'[t] = "Start_156" /\ UNCHANGED lifecycleVars
             /\ (pc[t] = "Start_163" /\ isRunning[arg[t]] /\ Steps(t)) =>
                   pc'[t] = "Start_164" /\ UNCHANGED lifecycleVars
             /\ (pc[t] \in {"Start_156", "Start_164"} /\ Steps(t)) =>
                   pc'[t] = "idle" /\ UNCHANGED lifecycleVars]_vars

\* one Start returns from a running peer while another returns because the
\* device was closed in the meantime
C8_Witness ==
    \E t, u \in Threads :
        /\ pc[t] = "Start_164" /\ isRunning[arg[t]]
        /\ pc[u] = "Start_156" /\ isClosed

\* C9: a Stop that finds the peer not running returns at once and changes
\* nothing: no queue is closed, the open-count is not decremented, timers
\* and session are untouched; so a Stop after a Stop changes nothing.
C9_StopNoOp ==
    [][\A t \in Threads :
          /\ (pc[t] = "Stop_244" /\ ~isRunning[arg[t]] /\ Steps(t)) =>
                /\ pc'[t] = "Stop_245"
                /\ UNCHANGED <<lifecycleVars, sessionVars, indexTable,
                               panicked>>
          /\ (pc[t] = "Stop_245" /\ Steps(t)) =>
                /\ pc'[t] = "idle"
                /\ UNCHANGED <<lifecycleVars, sessionVars, indexTable,
                               panicked>>]_vars

\* a Stop returns from a peer that an earlier Stop has torn down
C9_Witness ==
    \E t \in Threads :
        /\ pc[t] = "Stop_245"
        /\ outbound[arg[t]].st = "closed" /\ inbound[arg[t]].st = "closed"

\* C10: when ZeroAndFlushAll returns and no session event has hit the peer
\* during the call, the three keypair slots are empty, the handshake
\* secrets are zero and its local index is reset, no entry of the index
\* table leads to the peer and the staged queue is empty.
C10_ZeroAndFlushAllClears ==
    \A t \in Threads :
        (pc[t] = "ZFA_218" /\ ~zfaDirty[t]) =>
            /\ NoKeyMaterial(arg[t])
            /\ \A i \in Indices : indexTable[i] # arg[t]
            /\ stagedLen[arg[t]] = 0

\* a call returns undisturbed while a concurrent ExpireCurrentKeypairs is
\* half way through
C10_Witness ==
    \E t, u \in Threads :
        /\ pc[t] = "ZFA_218" /\ ~zfaDirty[t]
        /\ pc[u] = "Expire_229"
        /\ lastSentExpired[arg[t]]

\* C11: when ExpireCurrentKeypairs returns and no session event has hit the
\* peer during the call, the handshake secrets are zero, its local index is
\* reset and no entry of the index table leads to the peer, the time of the
\* last sent handshake lies more than RekeyTimeout back, and neither the
\* current nor the next keypair hands out a send counter: each of them,
\* when present, has its counter at RejectAfterMessages. A present current
\* keypair that no longer hands out counters stays so for as long as it is
\* the current keypair, and a next keypair takes its counter along when it
\* becomes the current one.
C11_ExpireCurrentKeypairs ==
    [][/\ \A t \in Threads :
             (pc'[t] = "Expire_238" /\ ~zfaDirty'[t]) =>
                 LET p == arg'[t] IN
                 /\ ~hsSecret'[p] /\ localIndex'[p] = NoIndex
                 /\ \A i \in Indices : indexTable'[i] # p
                 /\ lastSentExpired'[p]
                 /\ ~IssuesCounter(keypairs'[p].current)
                 /\ ~IssuesCounter(keypairs'[p].next)
                 /\ keypairs'[p].current.present =>
                       keypairs'[p].current.sendNonce = RejectAfterMessages
                 /\ keypairs'[p].next.present =>
                       keypairs'[p].next.sendNonce = RejectAfterMessages
       /\ \A p \in Keys :
             LET kp == keypairs[p]
                 kq == keypairs'[p] IN
             /\ (/\ kp.current.present /\ ~IssuesCounter(kp.current)
                 /\ kq.current.present
                 /\ kq.previous = kp.previous /\ kq.next = kp.next)
                   => ~IssuesCounter(kq.current)
             /\ (/\ kp.next.present /\ ~IssuesCounter(kp.next)
                 /\ ~kq.next.present /\ kq.current.present
                 /\ kq.previous = kp.current)
                   => ~IssuesCounter(kq.current)]_vars

\* a call returns undisturbed from a peer that has a current and a next
\* keypair, after the current one had handed out a counter
C11_Witness ==
    \E t \in Threads :
        /\ pc[t] = "Expire_238" /\ ~zfaDirty[t]
        /\ keypairs[arg[t]].current.present
        /\ keypairs[arg[t]].next.present
        /\ keypairs[arg[t]].previous.present
        /\ keypairs[arg[t]].previous.sendNonce = 1

\* C12: SendBuffer decides in this order. With no bind it returns nil
\* when the device is closed and "no bind" when it is not, whatever the
\* endpoint; with a bind and no endpoint it returns "no known endpoint for
\* peer"; with both it returns what the bind's Send returned. Nothing is
\* sent on the first three paths. txBytes of the peer grows by len(buffer)
\* in the step in which Send succeeds, and no other step of the transmit
\* specification changes any txBytes.
C12_SendBufferOutcome ==
    [][/\ \A t \in Threads :
             LET p == arg'[t] IN
             /\ pc'[t] = "Send_125" =>
                   ret'[t] = ErrNone /\ ~bind' /\ isClosed'
             /\ pc'[t] = "Send_127" => ret'[t] = ErrNoBind /\ ~bind'
             /\ pc'[t] = "Send_134" =>
                   /\ ret'[t] = ErrNoEndpoint
                   /\ bind' /\ endpoint'[p] = NilEndpoint
             /\ pc'[t] = "Send_141" =>
                   /\ ret'[t] \in {ErrNone, ErrSend}
                   /\ bind' /\ endpoint'[p] # NilEndpoint
             /\ (pc[t] = "Send_118" /\ Steps(t) /\ ~bind) =>
                   pc'[t] = "Send_124"
             /\ (pc[t] = "Send_124" /\ Steps(t)) =>
                   pc'[t] = IF isClosed THEN "Send_125" ELSE "Send_127"
             /\ (pc[t] = "Send_137" /\ Steps(t)) =>
                   /\ pc'[t] = "Send_141"
                   /\ txBytes' = [txBytes EXCEPT ![arg[t]] =
                                     IF ret'[t] = ErrNone THEN @ + buf[t]
                                                          ELSE @]
       /\ (txBytes' # txBytes) =>
             \E t \in Threads : pc[t] = "Send_137" /\ ret'[t] = ErrNone]_vars

\* a second successful send has brought the peer's txBytes to the cap
\* while a concurrent SendBuffer on the same peer waits for the network
C12_Witness ==
    \E t, u \in Threads :
        /\ pc[t] = "Send_141" /\ ret[t] = ErrNone /\ buf[t] = MaxBufLen
        /\ txBytes[arg[t]] = MaxTxBytes
        /\ pc[u] = "Send_137" /\ arg[u] = arg[t] /\ buf[u] = 0

\* C14: a SetEndpointFromPacket call that finds roaming disabled returns
\* without writing the endpoint; a call that finds it enabled writes the
\* address it was given into the endpoint of its peer and of no other. No
\* step of the call changes anything else of the peer or the device, and
\* none panics.
C14_SetEndpointFromPacket ==
    [][\A t \in Threads :
          (pc[t] \in {"SetEndpoint_261", "SetEndpoint_262",
                      "SetEndpoint_264", "SetEndpoint_267"} /\ Steps(t)) =>
              /\ pc[t] = "SetEndpoint_261" =>
                    pc'[t] = IF disableRoaming[arg[t]]
                               THEN "SetEndpoint_262" ELSE "SetEndpoint_264"
              /\ pc[t] = "SetEndpoint_262" => pc'[t] = "idle"
              /\ pc[t] = "SetEndpoint_264" => pc'[t] = "SetEndpoint_267"
              /\ pc[t] = "SetEndpoint_267" => pc'[t] = "idle"
              /\ endpoint' = IF pc[t] = "SetEndpoint_264"
                               THEN [endpoint EXCEPT ![arg[t]] = buf[t]]
                               ELSE endpoint
              /\ panicked' = NoPanic
              /\ UNCHANGED <<devVars, queueLock, queueVars, routineVars,
                             sessionVars, netVars, statVars, ret>>]_vars

\* one call has written its address while another on the same peer, which
\* found roaming disabled, is about to return
C14_Witness ==
    \E t, u \in Threads :
        /\ pc[t] = "SetEndpoint_267" /\ endpoint[arg[t]] = buf[t]
        /\ pc[u] = "SetEndpoint_262" /\ arg[u] = arg[t]
        /\ disableRoaming[arg[t]]

\* the lines of Peer.Start, Peer.Stop, Peer.ZeroAndFlushAll and
\* Peer.ExpireCurrentKeypairs
LifecyclePcs ==
    {"Start_155", "Start_156", "Start_160", "Stop_241",
     "Expire_222", "Expire_229", "Expire_238"}
        \cup StartBodyPcs \cup StopBodyPcs \cup ZfaPcs

\* C13: no step of a Start, Stop, ZeroAndFlushAll or ExpireCurrentKeypairs
\* call changes txBytes or rxBytes of any peer, so both survive every
\* stop/start cycle with the value the traffic gave them, and no step at
\* all lowers either of them.
C13_StatsPreserved ==
    [][/\ \A t \in Threads :
             (pc[t] \in LifecyclePcs /\ Steps(t)) => UNCHANGED statVars
       /\ \A p \in Keys :
             txBytes'[p] >= txBytes[p] /\ rxBytes'[p] >= rxBytes[p]]_vars

\* a peer that has sent and received is running again after a Stop that
\* cleared a handshake, with both counters still at their values
C13_Witness ==
    \E t \in Threads :
        /\ pc[t] = "Start_192"
        /\ outbound[arg[t]].gen = 2
        /\ txBytes[arg[t]] = MaxTxBytes
        /\ rxBytes[arg[t]] = MaxBufLen
        /\ ~hsSecret[arg[t]]

Increasing(q) == \A i, j \in 1..Len(q) : i < j => q[i] < q[j]

\* C16: the elements of a peer reach the network in the order in which
\* they were enqueued, whatever the order in which their encryption
\* completes: the sent elements, the element the sender holds and the
\* elements still queued follow one another in enqueue order, and at most
\* one sender routine per peer is alive and holds at most one element.
C16_OutboundFifo ==
    \A p \in Keys :
        /\ senders[p] <= 1
        /\ Cardinality(inHand[p]) <= 1
        /\ Increasing(sentLog[p])
        /\ Increasing(outQ[p])
        /\ \A i \in 1..Len(sentLog[p]) :
              \A id \in InFlight(p) : sentLog[p][i] < id
        /\ \A id \in inHand[p] :
              \A i \in 1..Len(outQ[p]) : id < outQ[p][i]

\* the first element has been sent, the sender holds the second, whose
\* encryption is still running, and the third is encrypted already
C16_Witness ==
    \E p \in Keys :
        /\ sentLog[p] = <<1>>
        /\ inHand[p] = {2} /\ 2 \notin encDone[p]
        /\ 3 \in encDone[p]

\* thread t is in Stop on p and has executed the line before one of ls
StopIsAt(t, p, ls) ==
    /\ arg[t] = p
    /\ \/ pc[t] \in ls
       \/ pc[t] \in ZfaPcs /\ frame[t] = "Stop"

\* C17: a Stop that found the peer running does its work in this order.
\* From line 250 on the running flag is clear; from line 252 on the timers
\* are disarmed; from line 253 on inbound is closed and from line 254 on
\* outbound is closed too; from line 255 on, past the Wait, no sender and
\* no receiver of the peer is alive; from line 257 on the peer's count on
\* the encryption queue is given back. Stop's ZeroAndFlushAll comes after
\* all of that, so no routine of the peer is alive while it clears the
\* session.
C17_StopOrder ==
    \A t \in Threads : \A p \in Keys :
        /\ StopIsAt(t, p, {"Stop_250", "Stop_252", "Stop_253", "Stop_254",
                           "Stop_255", "Stop_257", "Stop_258"})
              => ~isRunning[p]
        /\ StopIsAt(t, p, {"Stop_252", "Stop_253", "Stop_254", "Stop_255",
                           "Stop_257", "Stop_258"})
              => ~timersActive[p]
        /\ StopIsAt(t, p, {"Stop_253", "Stop_254", "Stop_255", "Stop_257",
                           "Stop_258"})
              => inbound[p].st = "closed"
        /\ StopIsAt(t, p, {"Stop_254", "Stop_255", "Stop_257", "Stop_258"})
              => outbound[p].st = "closed"
        /\ StopIsAt(t, p, {"Stop_255", "Stop_257", "Stop_258"})
              => senders[p] = 0 /\ receivers[p] = 0 /\ stopping[p] = 0
        /\ StopIsAt(t, p, {"Stop_257", "Stop_258"}) => encWg = 0
        /\ pc[t] \in {"Stop_250", "Stop_252", "Stop_253", "Stop_254"}
              => encWg = 1

\* Stop's ZeroAndFlushAll is about to release the keypairs of a peer that
\* had a handshake and keys when it was stopped
C17_Witness ==
    \E t \in Threads :
        /\ pc[t] = "ZFA_200" /\ frame[t] = "Stop"
        /\ keypairs[arg[t]].current.present
        /\ hsSecret[arg[t]]

\* the session of p is cleared: no keypair, no handshake secret, no index
\* and nothing staged
SessionCleared(p) ==
    /\ NoKeyMaterial(p)
    /\ \A i \in Indices : indexTable[i] # p
    /\ stagedLen[p] = 0

\* C18: under every interleaving of ZeroAndFlushAll calls with one another,
\* with ExpireCurrentKeypairs calls and with session events, no keypair is
\* handed to DeleteKeypair a second time and no index is released a second
\* time; the index table leads to a peer exactly through the index its
\* handshake holds, so the index of a handshake is released when the
\* handshake is cleared; and no step of a ZeroAndFlushAll call on a session
\* that is cleared already changes anything of the peer or the device.
C18_ZeroAndFlushAllRepeatable ==
    [][/\ fault' = NoFault
       /\ \A p \in Keys : \A i \in Indices :
             indexTable'[i] = p <=> localIndex'[p] = i
       /\ \A t \in Threads :
             (pc[t] \in ZfaPcs /\ Steps(t) /\ SessionCleared(arg[t])) =>
                 UNCHANGED <<devVars, queueLock, queueVars, routineVars,
                             sessionVars, endpoint, extVars, pipeVars,
                             panicked>>]_vars

\* one call is about to return and a second, concurrent one on the same
\* peer has still to clear the handshake that the first has cleared
C18_Witness ==
    \E t, u \in Threads :
        /\ pc[t] = "ZFA_218" /\ ~zfaDirty[t]
        /\ pc[u] = "ZFA_212" /\ ~zfaDirty[u]
        /\ arg[u] = arg[t]
        /\ SessionCleared(arg[t])
        /\ lastSentExpired[arg[t]] = FALSE

\* peer p holds a count on the encryption queue: a Start has passed its
\* Add of line 184 and no Stop has passed its Done of line 255 since
HoldsEncryptionCount(p) ==
    \/ isRunning[p]
    \/ \E t \in Threads :
          /\ arg[t] = p
          /\ pc[t] \in {"Start_186", "Start_188", "Start_189", "Start_191",
                        "Stop_250", "Stop_252", "Stop_253", "Stop_254",
                        "Stop_255"}

\* C19: the count that peers hold on the device's encryption queue is the
\* number of peers that are running, are being started past the Add, or
\* are being stopped before the Done; between calls that is the number of
\* running peers, and zero when none runs. The count never goes negative.
C19_EncryptionCountBalanced ==
    /\ encWg = Cardinality({p \in Keys : HoldsEncryptionCount(p)})
    /\ (\A t \in Threads : pc[t] = "idle") =>
          encWg = Cardinality({p \in Keys : isRunning[p]})
    /\ encWg >= 0
    /\ panicked # PanicWaitGroup

\* one peer runs again after a stop/start cycle while the other is being
\* stopped and has not given its count back yet
C19_Witness ==
    \E t \in Threads :
        /\ pc[t] = "Stop_254" /\ arg[t] = 2
        /\ isRunning[1] /\ outbound[1].gen = 2
        /\ encWg = 2

====
